---- MODULE Spec2Model ----
(***************************************************************************)
(* State-machine model of the regelrecht-upload portal: submissions,       *)
(* documents, uploader/admin sessions and calendar slots kept in one       *)
(* relational database, and the request handlers that act on them.         *)
(* Every SQL statement is one atomic step; a handler that issues several   *)
(* statements is a sequence of steps that interleaves with other requests. *)
(***************************************************************************)
EXTENDS Integers, Sequences, FiniteSets, Bags, TLC

\* ---------------------------------------------------------------------------
\* Bounds of the model
\* ---------------------------------------------------------------------------
MaxSubs == 2
MaxSlots == 2
MaxAdminReqs == 2
MaxBookReqs == 2
MaxLifeReqs == 2
MaxDocReqs == 2
MaxAuthReqs == 2
MaxGateReqs == 2
MaxTime == 1

\* ---------------------------------------------------------------------------
\* Option<T>, as in the Rust models: None or Some(x)
\* ---------------------------------------------------------------------------
None == << >>
Some(x) == << x >>
IsSome(o) == o /= None
Unwrap(o) == o[1]
\* COALESCE($1, column)
Coalesce(o, old) == IF IsSome(o) THEN o ELSE old

\* ---------------------------------------------------------------------------
\* Characters and strings (a string is a sequence of one-character strings)
\* ---------------------------------------------------------------------------
AsciiLower == {"a", "b", "c", "d", "e", "f", "g", "h", "i", "j", "k", "l", "m",
               "n", "o", "p", "q", "r", "s", "t", "u", "v", "w", "x", "y", "z"}
AsciiDigit == {"0", "1", "2", "3", "4", "5", "6", "7", "8", "9"}
DigitChar(i) == <<"0", "1", "2", "3", "4", "5", "6", "7", "8", "9">>[(i % 10) + 1]

\* the check that lets a hyphen at the end through
validate_slug_trailing_hyphen(slug) ==
    IF Len(slug) = 0 \/ Len(slug) > 50 THEN "InvalidSlug"
    ELSE LET is_valid == \A i \in 1..Len(slug) :
                            slug[i] \in AsciiLower \cup AsciiDigit \cup {"-"}
         IN IF ~is_valid \/ slug[1] = "-"
            THEN "InvalidSlug"
            ELSE "Ok"

validate_slug(slug) ==
    IF Len(slug) = 0 \/ Len(slug) > 50 THEN "InvalidSlug"
    ELSE LET is_valid == \A i \in 1..Len(slug) :
                            slug[i] \in AsciiLower \cup AsciiDigit \cup {"-"}
         IN IF ~is_valid \/ slug[1] = "-" \/ slug[Len(slug)] = "-"
            THEN "InvalidSlug"
            ELSE "Ok"

\* the slug the database's generator gives the n-th submission
generate_submission_slug(n) == <<"r", "r", "-", DigitChar(n)>>

\* slugs a client may put in a request path: those of the submissions, a
\* well-formed slug no submission has, and a malformed one
UnknownSlug == <<"x">>
BadSlug == <<"-", "x">>
SlugInputs == {generate_submission_slug(n) : n \in 1..MaxSubs} \cup {UnknownSlug, BadSlug}

\* ---------------------------------------------------------------------------
\* State
\* ---------------------------------------------------------------------------
VARIABLES
    now,                \* the database clock NOW(), in hours
    submissions,        \* table submissions: id -> row
    next_sub_id,        \* ids are fresh (gen_random_uuid)
    documents,          \* table documents: id -> row
    next_doc_id,
    files,              \* the upload directory: set of <<slug, storage filename>>
    calendar_slots,     \* table calendar_slots: id -> row
    next_slot_id,
    uploader_sessions,  \* table uploader_sessions: set of rows
    admin_sessions,     \* table admin_sessions: set of rows
    admin_users,        \* table admin_users: id -> row
    rate_limit_attempts,\* table rate_limit_attempts: bag of rows
    audit_log,          \* table audit_log: bag of rows
    next_token,         \* tokens are fresh (256 random bits)
    jar,                \* the cookies <<name, token>> clients received in a Set-Cookie
    fk_slot_on_delete,  \* ON DELETE action of calendar_slots.booked_by_submission
    startup,            \* the process from main: create_pool, run_migrations, serving
    schema,             \* the database schema: _migrations and the statements applied
    reqs,               \* in-flight requests: request -> handler position and locals
    sweep               \* position of the background cleanup task

vars == <<now, submissions, next_sub_id, documents, next_doc_id, files,
          calendar_slots, next_slot_id, uploader_sessions, admin_sessions,
          admin_users, rate_limit_attempts, audit_log, next_token, jar,
          fk_slot_on_delete, startup, schema, reqs, sweep>>

\* the requests of the run
Reqs == DOMAIN reqs

IdleReq == [op |-> "none", pc |-> "idle", slug |-> None, arg |-> None,
            cookie |-> None, sub |-> None, session |-> None, doc |-> None,
            result |-> None]

\* a handler returns (status, message)
Response(status, msg) == Some([status |-> status, msg |-> msg])

\* requests are interchangeable: they are numbered in the order they arrive
CanStart(r) ==
    /\ reqs[r].pc = "idle"
    /\ IF r = 1 THEN TRUE ELSE reqs[r - 1].pc /= "idle"

Begin(r, op, slug, arg, cookie) ==
    [op |-> op, pc |-> "idle", slug |-> slug, arg |-> arg, cookie |-> cookie,
     sub |-> None, session |-> None, doc |-> None, result |-> None]

\* the handler returns: its locals are dropped, the response stays
Return(req, status, msg) ==
    [req EXCEPT !.pc = "done", !.sub = None, !.session = None, !.doc = None,
                !.result = Response(status, msg)]

\* the same, for the handlers whose body is not looked at afterwards
Respond(req, status, msg) ==
    [Return(req, status, msg) EXCEPT !.arg = None]

Goto(req, pc) == [req EXCEPT !.pc = pc]

\* ---------------------------------------------------------------------------
\* Startup: create_pool and run_migrations
\* ---------------------------------------------------------------------------
\* let max_attempts = 5
create_pool_max_attempts == 5

\* the sleep that always lasts two seconds
BackoffSeconds_constant(attempts) == 2

\* Duration::from_secs(attempts as u64 * 2)
BackoffSeconds(attempts) == attempts * 2

\* "Define all migrations in order"
Migrations == <<"001_initial", "003_retention_date", "004_uploader_sessions">>

\* split_sql_statements(sql) of the migration files: the initial migration
\* creates the tables, submissions before the tables that reference it
MigrationStatements ==
    [name \in {Migrations[i] : i \in DOMAIN Migrations} |->
        IF name = "001_initial"
        THEN <<"CREATE TABLE submissions", "CREATE TABLE documents">>
        ELSE IF name = "003_retention_date"
        THEN <<"ALTER TABLE submissions ADD retention_expiry_date">>
        ELSE <<"CREATE TABLE uploader_sessions">>]

AllStatements ==
    UNION {{MigrationStatements[name][i] : i \in DOMAIN MigrationStatements[name]} :
              name \in DOMAIN MigrationStatements}

\* a process that has not been started
NotStarted ==
    [pc |-> "stopped", attempts |-> 0, slept |-> << >>, migration |-> 0,
     statement |-> 0, starts |-> 0, failed |-> FALSE]

\* the schema of an empty database
EmptySchema ==
    [tracking |-> None, applied |-> {},
     executed |-> [st \in AllStatements |-> 0]]

\* the process serves requests on a migrated database
Serving ==
    /\ startup = [NotStarted EXCEPT !.pc = "serving", !.attempts = 1,
                                    !.migration = Len(Migrations) + 1, !.starts = 1]
    /\ schema = [tracking |-> Some({Migrations[i] : i \in DOMAIN Migrations}),
                 applied |-> AllStatements,
                 executed |-> [st \in AllStatements |-> 1]]

StartupFrame ==
    UNCHANGED <<now, submissions, next_sub_id, documents, next_doc_id, files,
                calendar_slots, next_slot_id, uploader_sessions, admin_sessions,
                admin_users, rate_limit_attempts, audit_log, next_token, jar,
                fk_slot_on_delete, reqs, sweep>>

\* the process exits with the error: main returns Err through `?`
Exit(st) == [st EXCEPT !.pc = "exited", !.failed = TRUE]

\* one turn of the loop of create_pool: "attempts += 1", connect, and the match
\* on the result up to the return or the sleep
create_pool_connect ==
    /\ startup.pc = "connect"
    /\ LET attempts == startup.attempts + 1
       IN \E connected \in BOOLEAN :
             startup' =
                IF connected
                THEN [startup EXCEPT !.attempts = attempts, !.pc = "run_migrations"]
                ELSE IF attempts >= create_pool_max_attempts
                THEN Exit([startup EXCEPT !.attempts = attempts])
                ELSE [startup EXCEPT !.attempts = attempts, !.pc = "sleep"]
    /\ UNCHANGED schema
    /\ StartupFrame

\* tokio::time::sleep(Duration::from_secs(attempts as u64 * 2))
create_pool_sleep ==
    /\ startup.pc = "sleep"
    /\ startup' = [startup EXCEPT !.pc = "connect",
                       !.slept = Append(@, BackoffSeconds(startup.attempts))]
    /\ UNCHANGED schema
    /\ StartupFrame

\* CREATE TABLE IF NOT EXISTS _migrations
run_migrations ==
    /\ startup.pc = "run_migrations"
    /\ schema' = [schema EXCEPT !.tracking = IF @ = None THEN Some({}) ELSE @]
    /\ startup' = [startup EXCEPT !.pc = "legacy"]
    /\ StartupFrame

\* "Handle legacy databases": SELECT table_name ... = 'submissions', and
\* INSERT INTO _migrations ... ON CONFLICT (name) DO NOTHING if it exists
run_migrations_legacy ==
    /\ startup.pc = "legacy"
    /\ schema' = IF "CREATE TABLE submissions" \in schema.applied
                 THEN [schema EXCEPT !.tracking = Some(Unwrap(@) \cup {"001_initial"})]
                 ELSE schema
    /\ startup' = [startup EXCEPT !.pc = "check", !.migration = 1]
    /\ StartupFrame

\* "Check if already applied": SELECT name FROM _migrations WHERE name = $1,
\* for the next migration of the list; Ok(()) after the last
run_migrations_check ==
    /\ startup.pc = "check"
    /\ startup' =
          IF startup.migration > Len(Migrations)
          THEN [startup EXCEPT !.pc = "serving"]
          ELSE IF Migrations[startup.migration] \in Unwrap(schema.tracking)
          THEN [startup EXCEPT !.migration = @ + 1]
          ELSE [startup EXCEPT !.pc = "execute", !.statement = 1]
    /\ UNCHANGED schema
    /\ StartupFrame

\* "Split and execute statements": the next statement of the migration,
\* which succeeds or fails; a failure ends run_migrations through `?`
run_migrations_execute ==
    /\ startup.pc = "execute"
    /\ LET statements == MigrationStatements[Migrations[startup.migration]]
           st == statements[startup.statement]
       IN \E ok \in BOOLEAN :
             IF ok
             THEN /\ schema' = [schema EXCEPT !.applied = @ \cup {st},
                                              !.executed[st] = @ + 1]
                  /\ startup' = IF startup.statement = Len(statements)
                                THEN [startup EXCEPT !.pc = "record", !.statement = 0]
                                ELSE [startup EXCEPT !.statement = @ + 1]
             ELSE /\ UNCHANGED schema
                  /\ startup' = Exit([startup EXCEPT !.statement = 0])
    /\ StartupFrame

\* "Record as applied": INSERT INTO _migrations (name) VALUES ($1)
run_migrations_record ==
    /\ startup.pc = "record"
    /\ schema' = [schema EXCEPT !.tracking =
                     Some(Unwrap(@) \cup {Migrations[startup.migration]})]
    /\ startup' = [startup EXCEPT !.pc = "check", !.migration = @ + 1]
    /\ StartupFrame

\* ---------------------------------------------------------------------------
\* Database helpers
\* ---------------------------------------------------------------------------
Remove(table, ids) == [k \in (DOMAIN table) \ ids |-> table[k]]

\* SELECT * FROM submissions WHERE slug = $1   (fetch_optional)
get_submission_by_slug(slug) ==
    LET found == {i \in DOMAIN submissions : submissions[i].slug = slug}
    IN IF found = {} THEN None ELSE Some(submissions[CHOOSE i \in found : TRUE])

\* SELECT * FROM submissions WHERE id = $1   (fetch_optional)
get_submission_by_id(id) ==
    IF id \in DOMAIN submissions THEN Some(submissions[id]) ELSE None

AuditEntry(action, entity_type, entity_id, actor_type) ==
    [action |-> action, entity_type |-> entity_type, entity_id |-> entity_id,
     actor_type |-> actor_type]

\* the audit write that keeps only the newest entry
log_audit_replacing(action, entity_type, entity_id, actor_type) ==
    audit_log' = SetToBag({AuditEntry(action, entity_type, entity_id, actor_type)})

\* INSERT INTO audit_log ...
log_audit(action, entity_type, entity_id, actor_type) ==
    audit_log' = audit_log (+) SetToBag({AuditEntry(action, entity_type, entity_id, actor_type)})

\* ---------------------------------------------------------------------------
\* Calendar: book_slot
\* ---------------------------------------------------------------------------
\* the WHERE clause that matches every booked slot
SlotsBookedBy_anyone(sub_id) ==
    {k \in DOMAIN calendar_slots : calendar_slots[k].booked_by_submission /= None}

\* SELECT * FROM calendar_slots WHERE booked_by_submission = $1
SlotsBookedBy(sub_id) ==
    {k \in DOMAIN calendar_slots : calendar_slots[k].booked_by_submission = Some(sub_id)}

\* the UPDATE without its "is_available = true" guard
BookableSlot_ignoring_availability(slot_id) ==
    /\ slot_id \in DOMAIN calendar_slots
    /\ calendar_slots[slot_id].slot_start > now

\* WHERE id = $2 AND is_available = true AND slot_start > NOW()
BookableSlot(slot_id) ==
    /\ slot_id \in DOMAIN calendar_slots
    /\ calendar_slots[slot_id].is_available = TRUE
    /\ calendar_slots[slot_id].slot_start > now

\* request arrives: validate the slug, then SELECT the submission
book_slot(r, slug, slot_id) ==
    /\ CanStart(r)
    /\ LET req == Begin(r, "book_slot", slug, slot_id, None)
           submission == get_submission_by_slug(slug)
       IN reqs' = [reqs EXCEPT ![r] =
            IF validate_slug(slug) /= "Ok"
            THEN Return(req, "BAD_REQUEST", "InvalidSlug")
            ELSE IF submission = None
            THEN Return(req, "NOT_FOUND", "Submission not found")
            ELSE [Goto(req, "book_check_existing") EXCEPT !.sub = submission]]
    /\ UNCHANGED <<now, submissions, next_sub_id, documents, next_doc_id, files,
                   calendar_slots, next_slot_id, uploader_sessions, admin_sessions,
                   admin_users, rate_limit_attempts, audit_log, next_token, jar,
                   fk_slot_on_delete, startup, schema, sweep>>

\* "Check if submission already has a booked slot"
book_slot_check_existing(r) ==
    /\ reqs[r].pc = "book_check_existing"
    /\ LET submission == Unwrap(reqs[r].sub)
       IN reqs' = [reqs EXCEPT ![r] =
            IF SlotsBookedBy(submission.id) /= {}
            THEN Return(reqs[r], "BAD_REQUEST", "This submission already has a meeting booked")
            ELSE Goto(reqs[r], "book_update")]
    /\ UNCHANGED <<now, submissions, next_sub_id, documents, next_doc_id, files,
                   calendar_slots, next_slot_id, uploader_sessions, admin_sessions,
                   admin_users, rate_limit_attempts, audit_log, next_token, jar,
                   fk_slot_on_delete, startup, schema, sweep>>

\* "Try to book the slot (atomic operation)": the conditional UPDATE.  The
\* new booked_by_submission is a foreign key: the statement fails when the
\* submission has been deleted in the meantime.
book_slot_update(r) ==
    /\ reqs[r].pc = "book_update"
    /\ LET submission == Unwrap(reqs[r].sub)
           slot_id == reqs[r].arg
       IN IF ~BookableSlot(slot_id)
          THEN /\ reqs' = [reqs EXCEPT ![r] = Return(reqs[r], "BAD_REQUEST",
                              "Slot not available or has already been booked")]
               /\ UNCHANGED calendar_slots
          ELSE IF submission.id \notin DOMAIN submissions
          THEN /\ reqs' = [reqs EXCEPT ![r] = Return(reqs[r], "INTERNAL_SERVER_ERROR",
                              "Failed to book slot")]
               /\ UNCHANGED calendar_slots
          ELSE /\ calendar_slots' = [calendar_slots EXCEPT ![slot_id] =
                      [@ EXCEPT !.is_available = FALSE,
                                !.booked_by_submission = Some(submission.id)]]
               /\ reqs' = [reqs EXCEPT ![r] = Goto(reqs[r], "book_audit")]
    /\ UNCHANGED <<now, submissions, next_sub_id, documents, next_doc_id, files,
                   next_slot_id, uploader_sessions, admin_sessions,
                   admin_users, rate_limit_attempts, audit_log, next_token, jar,
                   fk_slot_on_delete, startup, schema, sweep>>

book_slot_audit(r) ==
    /\ reqs[r].pc = "book_audit"
    /\ log_audit("slot_booked", "calendar_slot", reqs[r].arg, "applicant")
    /\ reqs' = [reqs EXCEPT ![r] = Return(reqs[r], "OK", "success")]
    /\ UNCHANGED <<now, submissions, next_sub_id, documents, next_doc_id, files,
                   calendar_slots, next_slot_id, uploader_sessions, admin_sessions,
                   admin_users, rate_limit_attempts, next_token, jar,
                   fk_slot_on_delete, startup, schema, sweep>>

\* ---------------------------------------------------------------------------
\* Calendar: cancel_booking
\* ---------------------------------------------------------------------------
cancel_booking(r, slug) ==
    /\ CanStart(r)
    /\ LET req == Begin(r, "cancel_booking", slug, None, None)
           submission == get_submission_by_slug(slug)
       IN reqs' = [reqs EXCEPT ![r] =
            IF validate_slug(slug) /= "Ok"
            THEN Return(req, "BAD_REQUEST", "InvalidSlug")
            ELSE IF submission = None
            THEN Return(req, "NOT_FOUND", "Submission not found")
            ELSE [Goto(req, "cancel_update") EXCEPT !.sub = submission]]
    /\ UNCHANGED <<now, submissions, next_sub_id, documents, next_doc_id, files,
                   calendar_slots, next_slot_id, uploader_sessions, admin_sessions,
                   admin_users, rate_limit_attempts, audit_log, next_token, jar,
                   fk_slot_on_delete, startup, schema, sweep>>

\* UPDATE calendar_slots SET is_available = true, booked_by_submission = NULL
\* WHERE booked_by_submission = $1 RETURNING *   (fetch_optional: first row)
cancel_booking_update(r) ==
    /\ reqs[r].pc = "cancel_update"
    /\ LET submission == Unwrap(reqs[r].sub)
           matched == SlotsBookedBy(submission.id)
       IN /\ calendar_slots' = [k \in DOMAIN calendar_slots |->
                 IF k \in matched
                 THEN [calendar_slots[k] EXCEPT !.is_available = TRUE,
                                                !.booked_by_submission = None]
                 ELSE calendar_slots[k]]
          /\ IF matched = {}
             THEN reqs' = [reqs EXCEPT ![r] = Return(reqs[r], "NOT_FOUND",
                              "No booking found for this submission")]
             ELSE \E k \in matched :
                    reqs' = [reqs EXCEPT ![r] = [Goto(reqs[r], "cancel_audit") EXCEPT !.arg = k]]
    /\ UNCHANGED <<now, submissions, next_sub_id, documents, next_doc_id, files,
                   next_slot_id, uploader_sessions, admin_sessions,
                   admin_users, rate_limit_attempts, audit_log, next_token, jar,
                   fk_slot_on_delete, startup, schema, sweep>>

cancel_booking_audit(r) ==
    /\ reqs[r].pc = "cancel_audit"
    /\ log_audit("slot_cancelled", "calendar_slot", reqs[r].arg, "applicant")
    /\ reqs' = [reqs EXCEPT ![r] = Return(reqs[r], "OK", "success")]
    /\ UNCHANGED <<now, submissions, next_sub_id, documents, next_doc_id, files,
                   calendar_slots, next_slot_id, uploader_sessions, admin_sessions,
                   admin_users, rate_limit_attempts, next_token, jar,
                   fk_slot_on_delete, startup, schema, sweep>>

\* ---------------------------------------------------------------------------
\* Calendar: create_slots, delete_slot (admin)
\* ---------------------------------------------------------------------------
\* a new row takes the column defaults: available, not booked
NewSlot(id, input) ==
    [id |-> id, slot_start |-> input.slot_start, slot_end |-> input.slot_end,
     is_available |-> TRUE, booked_by_submission |-> None]

create_slots(r, input) ==
    /\ CanStart(r)
    /\ next_slot_id + Len(input) - 1 <= MaxSlots
    /\ reqs' = [reqs EXCEPT ![r] = Goto(Begin(r, "create_slots", None, input, None),
                                        "create_slots_loop")]
    /\ UNCHANGED <<now, submissions, next_sub_id, documents, next_doc_id, files,
                   calendar_slots, next_slot_id, uploader_sessions, admin_sessions,
                   admin_users, rate_limit_attempts, audit_log, next_token, jar,
                   fk_slot_on_delete, startup, schema, sweep>>

\* one iteration of "for slot_input in input": validate, INSERT
create_slots_loop(r) ==
    /\ reqs[r].pc = "create_slots_loop"
    /\ LET input == reqs[r].arg
       IN IF input = << >>
          THEN /\ reqs' = [reqs EXCEPT ![r] = Return(reqs[r], "CREATED", "success")]
               /\ UNCHANGED <<calendar_slots, next_slot_id>>
          ELSE IF Head(input).slot_end <= Head(input).slot_start
          THEN /\ reqs' = [reqs EXCEPT ![r] = Return(reqs[r], "BAD_REQUEST",
                              "End time must be after start time")]
               /\ UNCHANGED <<calendar_slots, next_slot_id>>
          ELSE /\ calendar_slots' = calendar_slots @@
                      (next_slot_id :> NewSlot(next_slot_id, Head(input)))
               /\ next_slot_id' = next_slot_id + 1
               /\ reqs' = [reqs EXCEPT ![r] = [reqs[r] EXCEPT !.arg = Tail(input)]]
    /\ UNCHANGED <<now, submissions, next_sub_id, documents, next_doc_id, files,
                   uploader_sessions, admin_sessions,
                   admin_users, rate_limit_attempts, audit_log, next_token, jar,
                   fk_slot_on_delete, startup, schema, sweep>>

\* "Check if slot is booked"
delete_slot(r, slot_id) ==
    /\ CanStart(r)
    /\ LET req == Begin(r, "delete_slot", None, slot_id, None)
       IN reqs' = [reqs EXCEPT ![r] =
            IF slot_id \notin DOMAIN calendar_slots
            THEN Return(req, "NOT_FOUND", "Slot not found")
            ELSE IF IsSome(calendar_slots[slot_id].booked_by_submission)
            THEN Return(req, "BAD_REQUEST", "Cannot delete a booked slot. Cancel the booking first.")
            ELSE Goto(req, "delete_slot_delete")]
    /\ UNCHANGED <<now, submissions, next_sub_id, documents, next_doc_id, files,
                   calendar_slots, next_slot_id, uploader_sessions, admin_sessions,
                   admin_users, rate_limit_attempts, audit_log, next_token, jar,
                   fk_slot_on_delete, startup, schema, sweep>>

\* DELETE FROM calendar_slots WHERE id = $1
delete_slot_delete(r) ==
    /\ reqs[r].pc = "delete_slot_delete"
    /\ calendar_slots' = Remove(calendar_slots, {reqs[r].arg})
    /\ reqs' = [reqs EXCEPT ![r] = Return(reqs[r], "OK", "success")]
    /\ UNCHANGED <<now, submissions, next_sub_id, documents, next_doc_id, files,
                   next_slot_id, uploader_sessions, admin_sessions,
                   admin_users, rate_limit_attempts, audit_log, next_token, jar,
                   fk_slot_on_delete, startup, schema, sweep>>

\* ---------------------------------------------------------------------------
\* Deleting submissions: admin delete_submission and the abandoned-draft sweep
\* ---------------------------------------------------------------------------

SlotsReferencing(ids) ==
    {k \in DOMAIN calendar_slots :
        \E i \in ids : calendar_slots[k].booked_by_submission = Some(i)}

\* DELETE FROM submissions fails when a slot still references a deleted row
\* and the foreign key has no referential action
DeleteBlocked(ids) ==
    fk_slot_on_delete = "no_action" /\ SlotsReferencing(ids) /= {}

\* the DELETE that leaves the uploader sessions of the deleted rows behind
DeleteSubmissionRows_keeping_sessions(ids) ==
    /\ submissions' = Remove(submissions, ids)
    /\ documents' = Remove(documents,
            {d \in DOMAIN documents : documents[d].submission_id \in ids})
    /\ uploader_sessions' = uploader_sessions
    /\ calendar_slots' =
         IF fk_slot_on_delete = "cascade"
         THEN Remove(calendar_slots, SlotsReferencing(ids))
         ELSE [k \in DOMAIN calendar_slots |->
                 IF k \in SlotsReferencing(ids)
                 THEN [calendar_slots[k] EXCEPT !.booked_by_submission = None]
                 ELSE calendar_slots[k]]

\* effect of DELETE FROM submissions on the rows that reference them:
\* documents and uploader_sessions cascade, calendar_slots follow their
\* foreign key's action
DeleteSubmissionRows(ids) ==
    /\ submissions' = Remove(submissions, ids)
    /\ documents' = Remove(documents,
            {d \in DOMAIN documents : documents[d].submission_id \in ids})
    /\ uploader_sessions' = {s \in uploader_sessions : s.submission_id \notin ids}
    /\ calendar_slots' =
         IF fk_slot_on_delete = "cascade"
         THEN Remove(calendar_slots, SlotsReferencing(ids))
         ELSE [k \in DOMAIN calendar_slots |->
                 IF k \in SlotsReferencing(ids)
                 THEN [calendar_slots[k] EXCEPT !.booked_by_submission = None]
                 ELSE calendar_slots[k]]

\* "1. Fetch the submission to get the slug for file cleanup"
delete_submission(r, id) ==
    /\ CanStart(r)
    /\ LET req == Begin(r, "delete_submission", None, id, None)
           submission == get_submission_by_id(id)
       IN reqs' = [reqs EXCEPT ![r] =
            IF submission = None
            THEN Return(req, "NOT_FOUND", "Submission not found")
            ELSE [Goto(req, "delete_submission_files") EXCEPT !.sub = submission]]
    /\ UNCHANGED <<now, submissions, next_sub_id, documents, next_doc_id, files,
                   calendar_slots, next_slot_id, uploader_sessions, admin_sessions,
                   admin_users, rate_limit_attempts, audit_log, next_token, jar,
                   fk_slot_on_delete, startup, schema, sweep>>

\* "2. Delete files from disk before database cascade": remove_dir_all may
\* fail, which is only logged
delete_submission_files(r) ==
    /\ reqs[r].pc = "delete_submission_files"
    /\ LET sub == Unwrap(reqs[r].sub)
       IN files' \in {files \ {f \in files : f[1] = sub.slug}, files}
    /\ reqs' = [reqs EXCEPT ![r] = Goto(reqs[r], "delete_submission_row")]
    /\ UNCHANGED <<now, submissions, next_sub_id, documents, next_doc_id,
                   calendar_slots, next_slot_id, uploader_sessions, admin_sessions,
                   admin_users, rate_limit_attempts, audit_log, next_token, jar,
                   fk_slot_on_delete, startup, schema, sweep>>

\* "3. Delete from database (CASCADE handles documents + uploader_sessions)"
delete_submission_row(r) ==
    /\ reqs[r].pc = "delete_submission_row"
    /\ LET ids == {reqs[r].arg} \cap DOMAIN submissions
       IN IF DeleteBlocked(ids)
          THEN /\ reqs' = [reqs EXCEPT ![r] = Return(reqs[r], "INTERNAL_SERVER_ERROR",
                              "Failed to delete submission")]
               /\ UNCHANGED <<submissions, documents, uploader_sessions, calendar_slots>>
          ELSE /\ DeleteSubmissionRows(ids)
               /\ reqs' = [reqs EXCEPT ![r] = Goto(reqs[r], "delete_submission_audit")]
    /\ UNCHANGED <<now, next_sub_id, next_doc_id, files,
                   next_slot_id, admin_sessions,
                   admin_users, rate_limit_attempts, audit_log, next_token, jar,
                   fk_slot_on_delete, startup, schema, sweep>>

\* "4. Log audit event"
delete_submission_audit(r) ==
    /\ reqs[r].pc = "delete_submission_audit"
    /\ log_audit("data_deleted", "submission", reqs[r].arg, "admin")
    /\ reqs' = [reqs EXCEPT ![r] = Return(reqs[r], "OK", "success")]
    /\ UNCHANGED <<now, submissions, next_sub_id, documents, next_doc_id, files,
                   calendar_slots, next_slot_id, uploader_sessions, admin_sessions,
                   admin_users, rate_limit_attempts, next_token, jar,
                   fk_slot_on_delete, startup, schema, sweep>>

\* INTERVAL '1 hour'
DraftMaxAgeHours == 1

\* the sweep that takes every old row, whatever its status
AbandonedDrafts_of_any_status ==
    {i \in DOMAIN submissions : submissions[i].created_at < now - DraftMaxAgeHours}

\* WHERE status = 'draft' AND created_at < NOW() - INTERVAL '1 hour'
AbandonedDrafts ==
    {i \in DOMAIN submissions :
        /\ submissions[i].status = "draft"
        /\ submissions[i].created_at < now - DraftMaxAgeHours}

SweepIdle == [pc |-> "idle", slugs |-> {}]

\* "1. Find and delete drafts older than 1 hour, returning the deleted rows"
cleanup_abandoned_drafts ==
    /\ sweep.pc = "idle"
    /\ AbandonedDrafts /= {}
    /\ IF DeleteBlocked(AbandonedDrafts)
       THEN UNCHANGED <<submissions, documents, uploader_sessions, calendar_slots, sweep>>
       ELSE /\ DeleteSubmissionRows(AbandonedDrafts)
            /\ sweep' = [pc |-> "remove_dirs",
                         slugs |-> {submissions[i].slug : i \in AbandonedDrafts}]
    /\ UNCHANGED <<now, next_sub_id, next_doc_id, files,
                   next_slot_id, admin_sessions,
                   admin_users, rate_limit_attempts, audit_log, next_token, jar,
                   fk_slot_on_delete, startup, schema, reqs>>

\* "2. Delete files from disk for each deleted draft": each removal may fail
cleanup_abandoned_drafts_files ==
    /\ sweep.pc = "remove_dirs"
    /\ \E removed \in SUBSET sweep.slugs :
          files' = {f \in files : f[1] \notin removed}
    /\ sweep' = SweepIdle
    /\ UNCHANGED <<now, submissions, next_sub_id, documents, next_doc_id,
                   calendar_slots, next_slot_id, uploader_sessions, admin_sessions,
                   admin_users, rate_limit_attempts, audit_log, next_token, jar,
                   fk_slot_on_delete, startup, schema, reqs>>

\* ---------------------------------------------------------------------------
\* Time
\* ---------------------------------------------------------------------------
Tick ==
    /\ \E t \in (now + 1)..MaxTime : now' = t
    /\ UNCHANGED <<submissions, next_sub_id, documents, next_doc_id, files,
                   calendar_slots, next_slot_id, uploader_sessions, admin_sessions,
                   admin_users, rate_limit_attempts, audit_log, next_token, jar,
                   fk_slot_on_delete, startup, schema, reqs, sweep>>

\* ---------------------------------------------------------------------------
\* Initial database contents
\* ---------------------------------------------------------------------------
\* a row as create_submission inserts it, in the given status
SubmissionRow(id, status, submitted_at) ==
    [id |-> id, slug |-> generate_submission_slug(id),
     submitter_name |-> "Jan", submitter_email |-> Some(<<"j","@","x">>),
     organization |-> "Gemeente X", organization_department |-> None,
     status |-> status, notes |-> None, created_at |-> 0 - 1,
     submitted_at |-> submitted_at]

\* Argon2 hash of a password
hash_password(password) == <<"argon2", password>>

AdminRow(id, is_active) ==
    [id |-> id, username |-> "admin", password_hash |-> hash_password("secret"),
     is_active |-> is_active, last_login_at |-> None]

\* the tables the calendar handlers do not touch
InitRest(max_reqs) ==
    /\ now = 0
    /\ documents = << >>
    /\ next_doc_id = 1
    /\ files = {}
    /\ uploader_sessions = {}
    /\ admin_sessions = {}
    /\ admin_users = (1 :> AdminRow(1, TRUE))
    /\ rate_limit_attempts = EmptyBag
    /\ audit_log = EmptyBag
    /\ next_token = 1
    /\ jar = {}
    /\ reqs = [r \in 1..max_reqs |-> IdleReq]
    /\ sweep = SweepIdle

\* ---------------------------------------------------------------------------
\* Specification of the calendar: booking, cancelling, slot administration,
\* deletion of submissions
\* ---------------------------------------------------------------------------
SlotInputs == {[slot_start |-> 1, slot_end |-> 2],
               [slot_start |-> MaxTime + 1, slot_end |-> MaxTime + 2],
               [slot_start |-> 2, slot_end |-> 2]}

\* n slots as create_slots inserts them, none booked yet; slots are
\* interchangeable, so they are numbered by start time
InitSlots(n) ==
    \E start \in [1..n -> {1, MaxTime + 1}] :
        /\ \A j, k \in 1..n : j <= k => start[j] <= start[k]
        /\ calendar_slots = [k \in 1..n |->
              NewSlot(k, [slot_start |-> start[k], slot_end |-> start[k] + 1])]
        /\ next_slot_id = n + 1

\* MaxSubs submissions, the first n of them submitted and the others draft
InitSubmissions(n) ==
    /\ submissions = [i \in 1..MaxSubs |->
          IF i <= n THEN SubmissionRow(i, "submitted", Some(0))
                    ELSE SubmissionRow(i, "draft", None)]
    /\ next_sub_id = MaxSubs + 1

\* the applicant's side: booking and cancelling
NextBook ==
    \/ \E r \in Reqs, slug \in SlugInputs, k \in 1..MaxSlots : book_slot(r, slug, k)
    \/ \E r \in Reqs : book_slot_check_existing(r)
    \/ \E r \in Reqs : book_slot_update(r)
    \/ \E r \in Reqs : book_slot_audit(r)
    \/ \E r \in Reqs, slug \in SlugInputs : cancel_booking(r, slug)
    \/ \E r \in Reqs : cancel_booking_update(r)
    \/ \E r \in Reqs : cancel_booking_audit(r)
    \/ Tick

\* book_slot and cancel_booking read neither the status of a submission nor
\* the foreign key's action
InitBook ==
    /\ InitRest(MaxBookReqs)
    /\ fk_slot_on_delete = "no_action"
    /\ Serving
    /\ InitSubmissions(0)
    /\ InitSlots(MaxSlots)

SpecBook == InitBook /\ [][NextBook]_vars

\* the whole calendar: the applicant's side, slot administration and the
\* deletion of submissions
NextCalendar ==
    \/ \E r \in Reqs, slug \in SlugInputs, k \in 1..MaxSlots : book_slot(r, slug, k)
    \/ \E r \in Reqs : book_slot_check_existing(r)
    \/ \E r \in Reqs : book_slot_update(r)
    \/ \E r \in Reqs : book_slot_audit(r)
    \/ \E r \in Reqs, slug \in SlugInputs : cancel_booking(r, slug)
    \/ \E r \in Reqs : cancel_booking_update(r)
    \/ \E r \in Reqs : cancel_booking_audit(r)
    \/ \E r \in Reqs, input \in SlotInputs : create_slots(r, <<input>>)
    \/ \E r \in Reqs : create_slots_loop(r)
    \/ \E r \in Reqs, k \in 1..MaxSlots : delete_slot(r, k)
    \/ \E r \in Reqs : delete_slot_delete(r)
    \/ \E r \in Reqs, id \in 1..MaxSubs : delete_submission(r, id)
    \/ \E r \in Reqs : delete_submission_files(r)
    \/ \E r \in Reqs : delete_submission_row(r)
    \/ \E r \in Reqs : delete_submission_audit(r)
    \/ cleanup_abandoned_drafts
    \/ cleanup_abandoned_drafts_files
    \/ Tick

InitCalendar ==
    /\ InitRest(MaxAdminReqs)
    /\ fk_slot_on_delete \in {"set_null", "no_action", "cascade"}
    /\ Serving
    /\ \E n \in 0..MaxSubs : InitSubmissions(n)
    /\ \E n \in 0..MaxSlots : InitSlots(n)

SpecCalendar == InitCalendar /\ [][NextCalendar]_vars

\* ---------------------------------------------------------------------------
\* Submission lifecycle: update_submission, submit_submission (applicant),
\* update_submission_status, forward_submission (admin)
\* ---------------------------------------------------------------------------
SubmissionStatus == {"draft", "submitted", "under_review", "approved",
                     "rejected", "forwarded", "completed"}

\* status IN ('submitted', 'under_review', 'approved')
ForwardableStatus == {"submitted", "under_review", "approved"}

\* the draft check, also letting a submitted submission through
Updatable_or_submitted(submission) ==
    submission.status \in {"draft", "submitted"}

\* submission.status != SubmissionStatus::Draft refuses the update
Updatable(submission) ==
    submission.status = "draft"

\* "Check submission exists and is in draft status"
update_submission(r, slug, input) ==
    /\ CanStart(r)
    /\ LET req == Begin(r, "update_submission", slug, input, None)
           existing == get_submission_by_slug(slug)
       IN reqs' = [reqs EXCEPT ![r] =
            IF validate_slug(slug) /= "Ok"
            THEN Return(req, "BAD_REQUEST", "InvalidSlug")
            ELSE IF existing = None
            THEN Return(req, "NOT_FOUND", "Submission not found")
            ELSE IF ~Updatable(Unwrap(existing))
            THEN Return(req, "BAD_REQUEST",
                        "Cannot update submission that is not in draft status")
            ELSE [Goto(req, "update_write") EXCEPT !.sub = existing]]
    /\ UNCHANGED <<now, submissions, next_sub_id, documents, next_doc_id, files,
                   calendar_slots, next_slot_id, uploader_sessions, admin_sessions,
                   admin_users, rate_limit_attempts, audit_log, next_token, jar,
                   fk_slot_on_delete, startup, schema, sweep>>

\* UPDATE submissions SET f = COALESCE($n, f), ... WHERE slug = $6 RETURNING *
\* (fetch_one: no row is an error)
update_submission_write(r) ==
    /\ reqs[r].pc = "update_write"
    /\ LET input == reqs[r].arg
           matched == {i \in DOMAIN submissions : submissions[i].slug = reqs[r].slug}
       IN /\ submissions' = [i \in DOMAIN submissions |->
                 IF i \in matched
                 THEN [submissions[i] EXCEPT
                         !.submitter_name = Unwrap(Coalesce(input.submitter_name, Some(@))),
                         !.submitter_email = Coalesce(input.submitter_email, @),
                         !.organization = Unwrap(Coalesce(input.organization, Some(@))),
                         !.organization_department =
                               Coalesce(input.organization_department, @),
                         !.notes = Coalesce(input.notes, @)]
                 ELSE submissions[i]]
          /\ reqs' = [reqs EXCEPT ![r] =
                 IF matched = {}
                 THEN Return(reqs[r], "INTERNAL_SERVER_ERROR", "Failed to update submission")
                 ELSE Goto(reqs[r], "update_audit")]
    /\ UNCHANGED <<now, next_sub_id, documents, next_doc_id, files,
                   calendar_slots, next_slot_id, uploader_sessions, admin_sessions,
                   admin_users, rate_limit_attempts, audit_log, next_token, jar,
                   fk_slot_on_delete, startup, schema, sweep>>

update_submission_audit(r) ==
    /\ reqs[r].pc = "update_audit"
    /\ log_audit("submission_updated", "submission", Unwrap(reqs[r].sub).id, "applicant")
    /\ reqs' = [reqs EXCEPT ![r] = Return(reqs[r], "OK", "success")]
    /\ UNCHANGED <<now, submissions, next_sub_id, documents, next_doc_id, files,
                   calendar_slots, next_slot_id, uploader_sessions, admin_sessions,
                   admin_users, rate_limit_attempts, next_token, jar,
                   fk_slot_on_delete, startup, schema, sweep>>

\* the submit statement without its "status = 'draft'" guard
SubmittableRows_any_status(slug) ==
    {i \in DOMAIN submissions : submissions[i].slug = slug}

\* WHERE slug = $1 AND status = 'draft'
SubmittableRows(slug) ==
    {i \in DOMAIN submissions :
        submissions[i].slug = slug /\ submissions[i].status = "draft"}

\* UPDATE submissions SET status = 'submitted', submitted_at = NOW()
\* WHERE slug = $1 AND status = 'draft' RETURNING *
submit_submission(r, slug) ==
    /\ CanStart(r)
    /\ LET req == Begin(r, "submit_submission", slug, None, None)
           matched == SubmittableRows(slug)
       IN IF validate_slug(slug) /= "Ok"
          THEN /\ reqs' = [reqs EXCEPT ![r] = Return(req, "BAD_REQUEST", "InvalidSlug")]
               /\ UNCHANGED submissions
          ELSE IF matched = {}
          THEN /\ reqs' = [reqs EXCEPT ![r] = Return(req, "NOT_FOUND",
                              "Submission not found or not in draft status")]
               /\ UNCHANGED submissions
          ELSE /\ submissions' = [i \in DOMAIN submissions |->
                      IF i \in matched
                      THEN [submissions[i] EXCEPT !.status = "submitted",
                                                  !.submitted_at = Some(now)]
                      ELSE submissions[i]]
               /\ \E i \in matched :
                      reqs' = [reqs EXCEPT ![r] =
                          [Goto(req, "submit_audit") EXCEPT !.sub = Some(submissions'[i])]]
    /\ UNCHANGED <<now, next_sub_id, documents, next_doc_id, files,
                   calendar_slots, next_slot_id, uploader_sessions, admin_sessions,
                   admin_users, rate_limit_attempts, audit_log, next_token, jar,
                   fk_slot_on_delete, startup, schema, sweep>>

submit_submission_audit(r) ==
    /\ reqs[r].pc = "submit_audit"
    /\ log_audit("submission_submitted", "submission", Unwrap(reqs[r].sub).id, "applicant")
    /\ reqs' = [reqs EXCEPT ![r] = Return(reqs[r], "OK", "success")]
    /\ UNCHANGED <<now, submissions, next_sub_id, documents, next_doc_id, files,
                   calendar_slots, next_slot_id, uploader_sessions, admin_sessions,
                   admin_users, rate_limit_attempts, next_token, jar,
                   fk_slot_on_delete, startup, schema, sweep>>

\* UPDATE submissions SET status = $1, notes = COALESCE($2, notes) WHERE id = $3
update_submission_status(r, id, input) ==
    /\ CanStart(r)
    /\ LET req == Begin(r, "update_submission_status", None,
                        [id |-> id, status |-> input.status, notes |-> input.notes], None)
       IN IF id \notin DOMAIN submissions
          THEN /\ reqs' = [reqs EXCEPT ![r] = Return(req, "NOT_FOUND", "Submission not found")]
               /\ UNCHANGED submissions
          ELSE /\ submissions' = [submissions EXCEPT ![id] =
                      [@ EXCEPT !.status = input.status,
                                !.notes = Coalesce(input.notes, @)]]
               /\ reqs' = [reqs EXCEPT ![r] = Goto(req, "status_audit")]
    /\ UNCHANGED <<now, next_sub_id, documents, next_doc_id, files,
                   calendar_slots, next_slot_id, uploader_sessions, admin_sessions,
                   admin_users, rate_limit_attempts, audit_log, next_token, jar,
                   fk_slot_on_delete, startup, schema, sweep>>

\* "Log audit event", with the details json!({"new_status", "notes"})
update_submission_status_audit(r) ==
    /\ reqs[r].pc = "status_audit"
    /\ audit_log' = audit_log (+) SetToBag({
           [action |-> "submission_status_changed", entity_type |-> "submission",
            entity_id |-> reqs[r].arg.id, actor_type |-> "admin",
            details |-> [new_status |-> reqs[r].arg.status,
                         notes |-> reqs[r].arg.notes]]})
    /\ reqs' = [reqs EXCEPT ![r] = Return(reqs[r], "OK", "success")]
    /\ UNCHANGED <<now, submissions, next_sub_id, documents, next_doc_id, files,
                   calendar_slots, next_slot_id, uploader_sessions, admin_sessions,
                   admin_users, rate_limit_attempts, next_token, jar,
                   fk_slot_on_delete, startup, schema, sweep>>

\* the forward statement, also accepting a rejected submission
ForwardableRows_with_rejected(id) ==
    {i \in DOMAIN submissions :
        i = id /\ submissions[i].status \in ForwardableStatus \cup {"rejected"}}

\* WHERE id = $2 AND status IN ('submitted', 'under_review', 'approved')
ForwardableRows(id) ==
    {i \in DOMAIN submissions : i = id /\ submissions[i].status \in ForwardableStatus}

\* UPDATE submissions SET status = 'forwarded', notes = COALESCE($1, notes)
\* WHERE id = $2 AND status IN (...) RETURNING *
forward_submission(r, id, input) ==
    /\ CanStart(r)
    /\ LET req == Begin(r, "forward_submission", None,
                        [id |-> id, forward_to |-> input.forward_to,
                         notes |-> input.notes], None)
           matched == ForwardableRows(id)
       IN IF matched = {}
          THEN /\ reqs' = [reqs EXCEPT ![r] = Return(req, "NOT_FOUND",
                              "Submission not found or not in a forwardable status")]
               /\ UNCHANGED submissions
          ELSE /\ submissions' = [i \in DOMAIN submissions |->
                      IF i \in matched
                      THEN [submissions[i] EXCEPT !.status = "forwarded",
                                                  !.notes = Coalesce(input.notes, @)]
                      ELSE submissions[i]]
               /\ reqs' = [reqs EXCEPT ![r] = Goto(req, "forward_audit")]
    /\ UNCHANGED <<now, next_sub_id, documents, next_doc_id, files,
                   calendar_slots, next_slot_id, uploader_sessions, admin_sessions,
                   admin_users, rate_limit_attempts, audit_log, next_token, jar,
                   fk_slot_on_delete, startup, schema, sweep>>

forward_submission_audit(r) ==
    /\ reqs[r].pc = "forward_audit"
    /\ log_audit("submission_status_changed", "submission", reqs[r].arg.id, "admin")
    /\ reqs' = [reqs EXCEPT ![r] = Return(reqs[r], "OK", "success")]
    /\ UNCHANGED <<now, submissions, next_sub_id, documents, next_doc_id, files,
                   calendar_slots, next_slot_id, uploader_sessions, admin_sessions,
                   admin_users, rate_limit_attempts, next_token, jar,
                   fk_slot_on_delete, startup, schema, sweep>>

\* ---------------------------------------------------------------------------
\* Specification of the submission lifecycle
\* ---------------------------------------------------------------------------
\* UpdateSubmission bodies: one field, every field
UpdateInputs ==
    {[submitter_name |-> None, submitter_email |-> None, organization |-> None,
      organization_department |-> None, notes |-> Some("toelichting")],
     [submitter_name |-> Some("Piet"), submitter_email |-> Some(<<"p","@","y">>),
      organization |-> Some("Provincie Y"),
      organization_department |-> Some("Juridische Zaken"),
      notes |-> Some("toelichting")]}

\* UpdateStatusRequest bodies: every status without notes, one with notes
StatusInputs ==
    [status : SubmissionStatus, notes : {None}]
        \cup {[status |-> "under_review", notes |-> Some("beoordeeld")]}

\* ForwardRequest bodies
ForwardInputs ==
    [forward_to : {"team"}, notes : {None, Some("doorgestuurd")}]

\* the lifecycle requests address the submission whose status varies, a
\* fresh draft, and a submission that does not exist (no row has id 0)
LifeSlugs == {generate_submission_slug(n) : n \in {1, MaxSubs}} \cup {UnknownSlug}
LifeIds == {1, MaxSubs, 0}

NextLife ==
    \/ \E r \in Reqs, slug \in LifeSlugs, input \in UpdateInputs :
           update_submission(r, slug, input)
    \/ \E r \in Reqs : update_submission_write(r)
    \/ \E r \in Reqs : update_submission_audit(r)
    \/ \E r \in Reqs, slug \in LifeSlugs : submit_submission(r, slug)
    \/ \E r \in Reqs : submit_submission_audit(r)
    \/ \E r \in Reqs, id \in LifeIds, input \in StatusInputs :
           update_submission_status(r, id, input)
    \/ \E r \in Reqs : update_submission_status_audit(r)
    \/ \E r \in Reqs, id \in LifeIds, input \in ForwardInputs :
           forward_submission(r, id, input)
    \/ \E r \in Reqs : forward_submission_audit(r)

\* submission 1 in any status an admin can have set; the other submissions
\* freshly created
InitLife ==
    /\ InitRest(MaxLifeReqs)
    /\ fk_slot_on_delete = "no_action"
    /\ Serving
    /\ InitSlots(0)
    /\ \E status \in SubmissionStatus :
           submissions = [i \in 1..MaxSubs |->
               IF i = 1 THEN SubmissionRow(i, status,
                                 IF status = "draft" THEN None ELSE Some(0))
                        ELSE SubmissionRow(i, "draft", None)]
    /\ next_sub_id = MaxSubs + 1

SpecLife == InitLife /\ [][NextLife]_vars

\* ---------------------------------------------------------------------------
\* Properties of the calendar
\* ---------------------------------------------------------------------------
Done(r, op) == reqs[r].op = op /\ reqs[r].pc = "done"
Succeeded(r) == reqs[r].result = Response("OK", "success")
SlotNotAvailable(r) ==
    reqs[r].result = Response("BAD_REQUEST", "Slot not available or has already been booked")
SubmissionIdOf(slug) == CHOOSE i \in DOMAIN submissions : submissions[i].slug = slug
KnownSlug(slug) == \E i \in DOMAIN submissions : submissions[i].slug = slug

\* two book_slot requests, the only requests issued, by two different
\* submissions for the same slot that is still in the future; every slot
\* starts out available and no submission holds a booking
BookingRace(r1, r2) ==
    /\ r1 /= r2
    /\ Done(r1, "book_slot") /\ Done(r2, "book_slot")
    /\ \A r3 \in Reqs \ {r1, r2} : reqs[r3].op = "none"
    /\ KnownSlug(reqs[r1].slug) /\ KnownSlug(reqs[r2].slug)
    /\ reqs[r1].slug /= reqs[r2].slug
    /\ reqs[r1].arg = reqs[r2].arg
    /\ reqs[r1].arg \in DOMAIN calendar_slots
    /\ calendar_slots[reqs[r1].arg].slot_start > now

\* C1: of two book_slot requests by two different submissions (neither
\* holding a booking) for the same available future slot, in any
\* interleaving of their statements, exactly one succeeds and the other is
\* told the slot is not available; the slot ends up unavailable and booked
\* by the winner.
C1_ExactlyOneBookingWins ==
    \A r1 \in Reqs, r2 \in Reqs :
        BookingRace(r1, r2) =>
            /\ Succeeded(r1) \/ Succeeded(r2)
            /\ Succeeded(r1) => /\ SlotNotAvailable(r2)
                                /\ calendar_slots[reqs[r1].arg].is_available = FALSE
                                /\ calendar_slots[reqs[r1].arg].booked_by_submission
                                      = Some(SubmissionIdOf(reqs[r1].slug))

\* both requests of a race have returned and one of them holds the slot
C1_Witness ==
    \E r1 \in Reqs, r2 \in Reqs :
        /\ BookingRace(r1, r2)
        /\ Succeeded(r1)
        /\ SlotNotAvailable(r2)

\* C2: every submission is the booker of at most one calendar slot, after
\* any interleaving of book_slot and cancel_booking requests.
C2_AtMostOneSlotPerSubmission ==
    \A i \in DOMAIN submissions : Cardinality(SlotsBookedBy(i)) <= 1

\* ---------------------------------------------------------------------------
\* Properties of the submission lifecycle
\* ---------------------------------------------------------------------------
\* request r takes its first step, as operation op
Starts(r, op) == reqs[r].pc = "idle" /\ reqs'[r].op = op

Failed(r, status, msg) ==
    reqs[r].pc = "done" /\ reqs[r].result = Response(status, msg)

UpdateConflict == "Cannot update submission that is not in draft status"
NotInDraft == "Submission not found or not in draft status"
NotForwardable == "Submission not found or not in a forwardable status"

\* C4: an update_submission request for an existing submission that is not
\* in draft status ends at once with the conflict error, whatever fields it
\* supplies, and no submission row changes.
C4_UpdateOfNonDraftConflicts ==
    [][\A r \in Reqs :
          (/\ Starts(r, "update_submission")
           /\ KnownSlug(reqs'[r].slug)
           /\ Unwrap(get_submission_by_slug(reqs'[r].slug)).status /= "draft")
          => /\ reqs'[r].pc = "done"
             /\ reqs'[r].result = Response("BAD_REQUEST", UpdateConflict)
             /\ submissions' = submissions]_vars

\* a submitted submission refused an update that supplied every field
C4_Witness ==
    \E r \in Reqs :
        /\ Done(r, "update_submission")
        /\ Failed(r, "BAD_REQUEST", UpdateConflict)
        /\ reqs[r].arg.notes /= None
        /\ reqs[r].arg.submitter_name /= None
        /\ KnownSlug(reqs[r].slug)
        /\ Unwrap(get_submission_by_slug(reqs[r].slug)).status = "submitted"
        /\ Unwrap(get_submission_by_slug(reqs[r].slug)).notes = None

\* request r is a submit of this slug that matched a draft row
SubmitWon(r, slug) ==
    /\ reqs[r].op = "submit_submission"
    /\ reqs[r].slug = slug
    /\ reqs[r].pc = "submit_audit" \/ (reqs[r].pc = "done" /\ Succeeded(r))

\* an admin request put the submission with this slug back to draft
ResetToDraft(slug) ==
    \E r \in Reqs :
        /\ reqs[r].op = "update_submission_status"
        /\ reqs[r].pc /= "idle"
        /\ reqs[r].arg.status = "draft"
        /\ reqs[r].arg.id = SubmissionIdOf(slug)

C5_SubmitStep ==
    \A r \in Reqs :
        (Starts(r, "submit_submission") /\ validate_slug(reqs'[r].slug) = "Ok") =>
            LET slug == reqs'[r].slug
                row == get_submission_by_slug(slug)
            IN IF row /= None /\ Unwrap(row).status = "draft"
               THEN /\ reqs'[r].pc = "submit_audit"
                    /\ submissions' = [submissions EXCEPT ![Unwrap(row).id] =
                           [@ EXCEPT !.status = "submitted",
                                     !.submitted_at = Some(now)]]
               ELSE /\ reqs'[r].pc = "done"
                    /\ reqs'[r].result = Response("NOT_FOUND", NotInDraft)
                    /\ submissions' = submissions

\* C5: a submit_submission request succeeds exactly when the row is in draft
\* at its update, which sets status to submitted and stamps submitted_at and
\* touches nothing else; for any other status or an unknown slug it answers
\* not-found and changes nothing; two submit requests for the same submission
\* both succeed only if an admin put it back to draft.
C5_SubmitOnlyFromDraft ==
    /\ [][C5_SubmitStep]_vars
    /\ [](\A r1 \in Reqs, r2 \in Reqs, slug \in SlugInputs :
             (r1 /= r2 /\ SubmitWon(r1, slug) /\ SubmitWon(r2, slug))
                 => ResetToDraft(slug))

\* two submits of the same draft: one won, the other got not-found
C5_Witness ==
    \E r1 \in Reqs, r2 \in Reqs :
        /\ r1 /= r2
        /\ Done(r1, "submit_submission") /\ Done(r2, "submit_submission")
        /\ reqs[r1].slug = reqs[r2].slug
        /\ Succeeded(r1)
        /\ Failed(r2, "NOT_FOUND", NotInDraft)
        /\ KnownSlug(reqs[r1].slug)
        /\ Unwrap(get_submission_by_slug(reqs[r1].slug)).status = "submitted"
        /\ Unwrap(get_submission_by_slug(reqs[r1].slug)).submitted_at = Some(now)

\* C6: a forward_submission request for an existing submission moves it to
\* forwarded exactly when its status is submitted, under_review or approved;
\* from draft, rejected, forwarded or completed it is refused as not
\* forwardable and no row (status, notes) changes.
C6_ForwardOnlyFromForwardable ==
    [][\A r \in Reqs :
          (Starts(r, "forward_submission") /\ reqs'[r].arg.id \in DOMAIN submissions) =>
              LET id == reqs'[r].arg.id
              IN IF submissions[id].status \in {"submitted", "under_review", "approved"}
                 THEN /\ reqs'[r].pc = "forward_audit"
                      /\ submissions'[id].status = "forwarded"
                      /\ \A i \in DOMAIN submissions \ {id} :
                             submissions'[i] = submissions[i]
                 ELSE /\ reqs'[r].pc = "done"
                      /\ reqs'[r].result = Response("NOT_FOUND", NotForwardable)
                      /\ submissions' = submissions]_vars

\* a submission was forwarded, and a second forward with notes was refused
C6_Witness ==
    \E r1 \in Reqs, r2 \in Reqs :
        /\ Done(r1, "forward_submission") /\ Succeeded(r1)
        /\ Done(r2, "forward_submission")
        /\ Failed(r2, "NOT_FOUND", NotForwardable)
        /\ reqs[r1].arg.id = reqs[r2].arg.id
        /\ reqs[r1].arg.notes = None
        /\ reqs[r2].arg.notes /= None
        /\ submissions[reqs[r1].arg.id].status = "forwarded"
        /\ submissions[reqs[r1].arg.id].notes = None

\* ---------------------------------------------------------------------------
\* Strings (sequences of characters) and the validators of uploads
\* ---------------------------------------------------------------------------
AsciiUpper ==
    {"A","B","C","D","E","F","G","H","I","J","K","L","M",
     "N","O","P","Q","R","S","T","U","V","W","X","Y","Z"}

\* str::to_lowercase, on ASCII: each upper-case letter becomes its lower-case
\* letter, every other character stays
to_lowercase(str) ==
    LET upper == <<"A","B","C","D","E","F","G","H","I","J","K","L","M",
                   "N","O","P","Q","R","S","T","U","V","W","X","Y","Z">>
        lower == <<"a","b","c","d","e","f","g","h","i","j","k","l","m",
                   "n","o","p","q","r","s","t","u","v","w","x","y","z">>
    IN [i \in DOMAIN str |->
           IF str[i] \in AsciiUpper
           THEN lower[CHOOSE k \in DOMAIN upper : upper[k] = str[i]]
           ELSE str[i]]

\* str::ends_with
ends_with(str, pat) ==
    /\ Len(pat) <= Len(str)
    /\ SubSeq(str, Len(str) - Len(pat) + 1, Len(str)) = pat

\* str::starts_with
starts_with(str, pat) ==
    /\ Len(pat) <= Len(str)
    /\ SubSeq(str, 1, Len(pat)) = pat

\* str::contains
contains(str, pat) ==
    \E i \in 1..(Len(str) - Len(pat) + 1) : SubSeq(str, i, i + Len(pat) - 1) = pat

DANGEROUS_EXTENSIONS ==
    <<<<".", "p", "h", "p">>,
      <<".", "p", "h", "t", "m", "l">>,
      <<".", "p", "h", "p", "3">>,
      <<".", "p", "h", "p", "4">>,
      <<".", "p", "h", "p", "5">>,
      <<".", "p", "h", "p", "7">>,
      <<".", "p", "h", "p", "s">>,
      <<".", "a", "s", "p">>,
      <<".", "a", "s", "p", "x">>,
      <<".", "j", "s", "p">>,
      <<".", "j", "s", "p", "x">>,
      <<".", "c", "g", "i">>,
      <<".", "p", "l">>,
      <<".", "p", "y">>,
      <<".", "p", "y", "c">>,
      <<".", "p", "y", "o">>,
      <<".", "r", "b">>,
      <<".", "e", "r", "b">>,
      <<".", "e", "x", "e">>,
      <<".", "b", "a", "t">>,
      <<".", "c", "m", "d">>,
      <<".", "c", "o", "m">>,
      <<".", "m", "s", "i">>,
      <<".", "d", "l", "l">>,
      <<".", "s", "h">>,
      <<".", "b", "a", "s", "h">>,
      <<".", "z", "s", "h">>,
      <<".", "k", "s", "h">>,
      <<".", "j", "s">>,
      <<".", "j", "s", "x">>,
      <<".", "t", "s">>,
      <<".", "t", "s", "x">>,
      <<".", "m", "j", "s">>,
      <<".", "h", "t", "a", "c", "c", "e", "s", "s">>,
      <<".", "h", "t", "p", "a", "s", "s", "w", "d">>,
      <<".", "j", "a", "r">>,
      <<".", "w", "a", "r">>,
      <<".", "e", "a", "r">>,
      <<".", "c", "l", "a", "s", "s">>>>

\* the check that compares the filename as it was sent
validate_filename_extensions_case_sensitive(filename) ==
    LET lower == filename
    IN IF \E k \in DOMAIN DANGEROUS_EXTENSIONS :
              \/ ends_with(lower, DANGEROUS_EXTENSIONS[k])
              \/ contains(lower, DANGEROUS_EXTENSIONS[k] \o <<".">>)
       THEN "InvalidFileType" ELSE "Ok"

\* ends with a dangerous extension, or contains one followed by a dot
validate_filename_extensions(filename) ==
    LET lower == to_lowercase(filename)
    IN IF \E k \in DOMAIN DANGEROUS_EXTENSIONS :
              \/ ends_with(lower, DANGEROUS_EXTENSIONS[k])
              \/ contains(lower, DANGEROUS_EXTENSIONS[k] \o <<".">>)
       THEN "InvalidFileType" ELSE "Ok"

DocumentCategory == {"formal_law", "circular", "implementation_policy", "work_instruction"}
DocumentClassification == {"public", "claude_allowed", "restricted"}

\* the classification check that lets every classification through
validate_classification_for_upload_allowing_restricted(classification) ==
    "Ok"

validate_classification_for_upload(classification) ==
    IF classification = "restricted" THEN "RestrictedDocument" ELSE "Ok"

\* 50 * 1024 * 1024, the default of MAX_UPLOAD_SIZE
max_upload_size == 52428800

\* the check of the size alone
validate_file_upload_any_type(mime_type, file_size, max_size_bytes) ==
    IF file_size > max_size_bytes THEN "FileTooLarge" ELSE "Ok"

\* size first, then the MIME allow-list
validate_file_upload(mime_type, file_size, max_size_bytes) ==
    LET allowed_types ==
            {"application/pdf", "application/msword",
             "application/vnd.openxmlformats-officedocument.wordprocessingml.document",
             "application/vnd.ms-excel",
             "application/vnd.openxmlformats-officedocument.spreadsheetml.sheet",
             "application/vnd.ms-powerpoint",
             "application/vnd.openxmlformats-officedocument.presentationml.presentation",
             "application/vnd.oasis.opendocument.text", "application/rtf",
             "text/plain", "text/markdown", "text/csv"}
    IN IF file_size > max_size_bytes THEN "FileTooLarge"
       ELSE IF mime_type \notin allowed_types THEN "InvalidFileType"
       ELSE "Ok"

\* the URL is a sequence of characters
validate_external_url(url) ==
    IF \A i \in DOMAIN url : url[i] = " " THEN "Required"
    ELSE IF ~starts_with(url, <<"h","t","t","p","s",":","/","/">>)
            /\ ~starts_with(url, <<"h","t","t","p",":","/","/">>) THEN "InvalidUrl"
    ELSE IF Len(url) > 2048 THEN "TooLong"
    ELSE "Ok"

\* filename.rsplit(['/', '\\']).next(): what follows the last separator
Basename(filename) ==
    LET seps == {i \in DOMAIN filename : filename[i] \in {"/", "\\"}}
    IN IF seps = {} THEN filename
       ELSE SubSeq(filename, (CHOOSE i \in seps : \A j \in seps : j <= i) + 1,
                   Len(filename))

RECURSIVE TrimStart(_, _)
TrimStart(str, chars) ==
    IF str /= << >> /\ Head(str) \in chars THEN TrimStart(Tail(str), chars) ELSE str

RECURSIVE TrimEnd(_, _)
TrimEnd(str, chars) ==
    IF str /= << >> /\ str[Len(str)] \in chars
    THEN TrimEnd(SubSeq(str, 1, Len(str) - 1), chars) ELSE str

sanitize_filename(filename) ==
    LET basename == Basename(filename)
        mapped == [i \in DOMAIN basename |->
                     IF basename[i] \in AsciiLower \cup AsciiUpper \cup AsciiDigit
                                        \cup {"-", "_", "."}
                     THEN basename[i] ELSE "_"]
        sanitized == TrimEnd(TrimStart(TrimStart(mapped, {"."}), {"_"}), {"_"})
    IN IF sanitized = << >> THEN <<"u","p","l","o","a","d">> ELSE sanitized

\* format!("{}_{}", doc_id, safe_filename)
StorageFilename(doc_id, safe_filename) == <<DigitChar(doc_id), "_">> \o safe_filename

\* upload_dir.join(slug).join(storage_filename)
FilePath(slug, storage_filename) == <<slug, storage_filename>>

\* ---------------------------------------------------------------------------
\* Uploader sessions: validate_uploader_session
\* ---------------------------------------------------------------------------
UPLOADER_SESSION_COOKIE == "rr_uploader_session"
SESSION_COOKIE == "rr_admin_session"
UPLOADER_SESSION_HOURS == 4

\* 32 random bytes in hex: the n-th token drawn
generate_session_token(n) == <<"t", DigitChar(n)>>

\* the hash that returns its argument
hash_token_plain(token) ==
    token

\* SHA-256 of the token, hex-encoded
hash_token(token) == <<"s","h","a","2","5","6",":">> \o token

\* "{}={}; Path=/; HttpOnly; SameSite=Strict; Max-Age={}{}": what a client
\* keeps of a Set-Cookie header, Max-Age in seconds
SetCookie(name, token, max_age) == <<name, token, max_age>>

\* the tokens clients hold, under whichever name they were set
JarTokens == {c[2] : c \in jar}

\* the Cookie header is a sequence of <<name, value>>; the first cookie with
\* the uploader session's name counts
extract_uploader_session_token(cookies) ==
    LET named == {i \in DOMAIN cookies : cookies[i][1] = UPLOADER_SESSION_COOKIE}
    IN IF named = {} THEN None
       ELSE Some(cookies[CHOOSE i \in named : \A j \in named : i <= j][2])

\* the lookup that still accepts a session at the instant it expires
ValidUploaderSessions_until_expiry(token_hash) ==
    {s \in uploader_sessions : s.token_hash = token_hash /\ s.expires_at >= now}

\* WHERE token_hash = $1 AND expires_at > NOW()
ValidUploaderSessions(token_hash) ==
    {s \in uploader_sessions : s.token_hash = token_hash /\ s.expires_at > now}

\* the session check that accepts a session of any submission
SessionIsFor_any_submission(session_submission, submission) ==
    TRUE

\* Some((session_submission, _)) if session_submission.id == submission.id
SessionIsFor(session_submission, submission) ==
    session_submission.id = submission.id

UploadUnauthorized ==
    "Inloggen vereist om documenten toe te voegen aan een ingediende inzending."
DeleteUnauthorized ==
    "Inloggen vereist om documenten te verwijderen van een ingediende inzending."

Unauthorized(req) ==
    Respond(req, "UNAUTHORIZED",
           IF req.op = "delete_document" THEN DeleteUnauthorized ELSE UploadUnauthorized)

\* where the handler goes on once the authorization check has passed
AfterAuth(op) ==
    CASE op = "upload_document" -> "upload_read"
      [] op = "add_formal_law" -> "law_insert"
      [] op = "delete_document" -> "delete_select"

\* "Authorization check": a draft needs no session
CheckAuthorization(req, submission) ==
    [Goto(req, IF submission.status /= "draft" THEN "auth_session" ELSE AfterAuth(req.op))
        EXCEPT !.sub = Some(submission)]

\* validate_uploader_session, "Find valid session": the request's Cookie
\* header is read here
validate_uploader_session(r, cookies) ==
    /\ reqs[r].pc = "auth_session"
    /\ LET req == [reqs[r] EXCEPT !.cookie = Some(cookies)]
           token == extract_uploader_session_token(cookies)
       IN IF token = None
          THEN reqs' = [reqs EXCEPT ![r] = Unauthorized(req)]
          ELSE LET found == ValidUploaderSessions(hash_token(Unwrap(token)))
               IN IF found = {}
                  THEN reqs' = [reqs EXCEPT ![r] = Unauthorized(req)]
                  ELSE \E s \in found :
                         reqs' = [reqs EXCEPT ![r] =
                             [Goto(req, "auth_submission") EXCEPT !.session = Some(s)]]
    /\ UNCHANGED <<now, submissions, next_sub_id, documents, next_doc_id, files,
                   calendar_slots, next_slot_id, uploader_sessions,
                   admin_sessions, admin_users, rate_limit_attempts, audit_log,
                   next_token, jar, fk_slot_on_delete, startup, schema, sweep>>

\* validate_uploader_session, "Get associated submission", and the
\* comparison with the target submission
validate_uploader_session_submission(r) ==
    /\ reqs[r].pc = "auth_submission"
    /\ LET req == reqs[r]
           session_submission == get_submission_by_id(Unwrap(req.session).submission_id)
       IN reqs' = [reqs EXCEPT ![r] =
            IF session_submission = None
            THEN Unauthorized(req)
            ELSE IF SessionIsFor(Unwrap(session_submission), Unwrap(req.sub))
            THEN Goto(req, AfterAuth(req.op))
            ELSE Unauthorized(req)]
    /\ UNCHANGED <<now, submissions, next_sub_id, documents, next_doc_id, files,
                   calendar_slots, next_slot_id, uploader_sessions,
                   admin_sessions, admin_users, rate_limit_attempts, audit_log,
                   next_token, jar, fk_slot_on_delete, startup, schema, sweep>>

\* ---------------------------------------------------------------------------
\* Documents: upload_document, add_formal_law, delete_document
\* ---------------------------------------------------------------------------
\* the upload's category check that lets formal laws through
IsFormalLaw_never(category) ==
    FALSE

\* query.category == DocumentCategory::FormalLaw
IsFormalLaw(category) ==
    category = "formal_law"

RestrictedMsg == "RestrictedDocument. Documents marked as 'restricted' cannot be uploaded"

\* slug, classification and category checks, then "Get submission"
upload_document(r, slug, query) ==
    /\ CanStart(r)
    /\ LET req == Begin(r, "upload_document", slug, query, None)
           submission == get_submission_by_slug(slug)
       IN reqs' = [reqs EXCEPT ![r] =
            IF validate_slug(slug) /= "Ok"
            THEN Respond(req, "BAD_REQUEST", "InvalidSlug")
            ELSE IF validate_classification_for_upload(query.classification) /= "Ok"
            THEN Respond(req, "BAD_REQUEST", RestrictedMsg)
            ELSE IF IsFormalLaw(query.category)
            THEN Respond(req, "BAD_REQUEST",
                         "Formal laws should be added as links, not file uploads")
            ELSE IF submission = None
            THEN Respond(req, "NOT_FOUND", "Submission not found")
            ELSE CheckAuthorization(req, Unwrap(submission))]
    /\ UNCHANGED <<now, submissions, next_sub_id, documents, next_doc_id, files,
                   calendar_slots, next_slot_id, uploader_sessions,
                   admin_sessions, admin_users, rate_limit_attempts, audit_log,
                   next_token, jar, fk_slot_on_delete, startup, schema, sweep>>

\* "Process multipart upload (single file)", "Validate file", "Validate
\* filename doesn't contain dangerous extensions"; field is the multipart
\* field of the body, if any
upload_document_read(r, field) ==
    /\ reqs[r].pc = "upload_read"
    /\ LET req == reqs[r]
       IN reqs' = [reqs EXCEPT ![r] =
            IF field = None
            THEN Respond(req, "BAD_REQUEST", "No file provided")
            ELSE LET file == Unwrap(field)
                     original_filename ==
                         IF file.file_name = None THEN <<"u","n","k","n","o","w","n">>
                         ELSE Unwrap(file.file_name)
                     content_type ==
                         IF file.content_type = None THEN "application/octet-stream"
                         ELSE Unwrap(file.content_type)
                     valid == validate_file_upload(content_type, file.size, max_upload_size)
                 IN IF valid /= "Ok"
                    THEN Respond(req, "BAD_REQUEST", valid)
                    ELSE IF validate_filename_extensions(original_filename) /= "Ok"
                    THEN Respond(req, "BAD_REQUEST", "InvalidFileType")
                    ELSE [Goto(req, "upload_store") EXCEPT !.doc =
                            Some([original_filename |-> original_filename,
                                  mime_type |-> content_type,
                                  file_size |-> file.size])]]
    /\ UNCHANGED <<now, submissions, next_sub_id, documents, next_doc_id, files,
                   calendar_slots, next_slot_id, uploader_sessions,
                   admin_sessions, admin_users, rate_limit_attempts, audit_log,
                   next_token, jar, fk_slot_on_delete, startup, schema, sweep>>

\* file_path.starts_with(&state.upload_dir): joining an absolute path would
\* replace the upload directory
WithinUploadDir(slug, storage_filename) ==
    /\ slug[1] /= "/"
    /\ storage_filename[1] /= "/"

\* "Create storage path", "Write file"
upload_document_store(r) ==
    /\ reqs[r].pc = "upload_store"
    /\ LET req == reqs[r]
           doc_id == next_doc_id
           safe_filename == sanitize_filename(Unwrap(req.doc).original_filename)
           storage_filename == StorageFilename(doc_id, safe_filename)
           file_path == FilePath(req.slug, storage_filename)
       IN IF ~WithinUploadDir(req.slug, storage_filename)
          THEN /\ reqs' = [reqs EXCEPT ![r] = Respond(req, "BAD_REQUEST", "Invalid filename")]
               /\ UNCHANGED files
          ELSE /\ files' = files \cup {file_path}
               /\ reqs' = [reqs EXCEPT ![r] =
                     [Goto(req, "upload_insert") EXCEPT !.doc =
                        Some([id |-> doc_id, filename |-> storage_filename,
                              original_filename |-> Unwrap(req.doc).original_filename,
                              file_path |-> file_path,
                              file_size |-> Unwrap(req.doc).file_size,
                              mime_type |-> Unwrap(req.doc).mime_type])]]
    /\ next_doc_id' = next_doc_id + 1
    /\ UNCHANGED <<now, submissions, next_sub_id, documents, calendar_slots,
                   next_slot_id, uploader_sessions, admin_sessions, admin_users,
                   rate_limit_attempts, audit_log, next_token, jar,
                   fk_slot_on_delete, startup, schema, sweep>>

\* the cleanup that removes the directory of the submission
upload_document_insert_removing_directory(r) ==
    /\ reqs[r].pc = "upload_insert"
    /\ Unwrap(reqs[r].sub).id \notin DOMAIN submissions
    /\ files' = {f \in files : f[1] /= reqs[r].slug}
    /\ reqs' = [reqs EXCEPT ![r] = Respond(reqs[r], "INTERNAL_SERVER_ERROR",
                    "Failed to store document. Please try again.")]
    /\ UNCHANGED <<now, submissions, next_sub_id, documents, next_doc_id,
                   calendar_slots, next_slot_id, uploader_sessions,
                   admin_sessions, admin_users, rate_limit_attempts, audit_log,
                   next_token, jar, fk_slot_on_delete, startup, schema, sweep>>

\* "Store metadata in database"; the insert fails when the submission is
\* gone (foreign key); the file is then removed, which may fail and is only
\* logged
upload_document_insert(r) ==
    /\ reqs[r].pc = "upload_insert"
    /\ LET req == reqs[r]
           doc == Unwrap(req.doc)
       IN IF Unwrap(req.sub).id \in DOMAIN submissions
          THEN /\ documents' = documents @@ (doc.id :>
                    [id |-> doc.id, submission_id |-> Unwrap(req.sub).id,
                     category |-> req.arg.category,
                     classification |-> req.arg.classification,
                     external_url |-> None, external_title |-> None,
                     filename |-> Some(doc.filename),
                     original_filename |-> Some(doc.original_filename),
                     file_path |-> Some(doc.file_path),
                     file_size |-> Some(doc.file_size),
                     mime_type |-> Some(doc.mime_type),
                     description |-> req.arg.description,
                     created_at |-> now])
               /\ reqs' = [reqs EXCEPT ![r] = Goto(req, "upload_audit")]
               /\ UNCHANGED files
          ELSE /\ files' \in {files \ {doc.file_path}, files}
               /\ reqs' = [reqs EXCEPT ![r] = Respond(req, "INTERNAL_SERVER_ERROR",
                               "Failed to store document. Please try again.")]
               /\ UNCHANGED documents
    /\ UNCHANGED <<now, submissions, next_sub_id, next_doc_id, calendar_slots,
                   next_slot_id, uploader_sessions, admin_sessions, admin_users,
                   rate_limit_attempts, audit_log, next_token, jar,
                   fk_slot_on_delete, startup, schema, sweep>>

upload_document_audit(r) ==
    /\ reqs[r].pc = "upload_audit"
    /\ log_audit("document_uploaded", "document", Unwrap(reqs[r].doc).id, "applicant")
    /\ reqs' = [reqs EXCEPT ![r] = Respond(reqs[r], "CREATED", "success")]
    /\ UNCHANGED <<now, submissions, next_sub_id, documents, next_doc_id, files,
                   calendar_slots, next_slot_id, uploader_sessions,
                   admin_sessions, admin_users, rate_limit_attempts, next_token,
                   jar, fk_slot_on_delete, startup, schema, sweep>>

\* "Validate slug", "Validate URL", "Get submission"
add_formal_law(r, slug, input) ==
    /\ CanStart(r)
    /\ LET req == Begin(r, "add_formal_law", slug, input, None)
           submission == get_submission_by_slug(slug)
       IN reqs' = [reqs EXCEPT ![r] =
            IF validate_slug(slug) /= "Ok"
            THEN Respond(req, "BAD_REQUEST", "InvalidSlug")
            ELSE IF validate_external_url(input.external_url) /= "Ok"
            THEN Respond(req, "BAD_REQUEST", validate_external_url(input.external_url))
            ELSE IF submission = None
            THEN Respond(req, "NOT_FOUND", "Submission not found")
            ELSE CheckAuthorization(req, Unwrap(submission))]
    /\ UNCHANGED <<now, submissions, next_sub_id, documents, next_doc_id, files,
                   calendar_slots, next_slot_id, uploader_sessions,
                   admin_sessions, admin_users, rate_limit_attempts, audit_log,
                   next_token, jar, fk_slot_on_delete, startup, schema, sweep>>

\* "Formal laws are always public": VALUES ($1, 'formal_law', 'public', ...)
add_formal_law_insert(r) ==
    /\ reqs[r].pc = "law_insert"
    /\ LET req == reqs[r]
           doc_id == next_doc_id
       IN IF Unwrap(req.sub).id \in DOMAIN submissions
          THEN /\ documents' = documents @@ (doc_id :>
                    [id |-> doc_id, submission_id |-> Unwrap(req.sub).id,
                     category |-> "formal_law", classification |-> "public",
                     external_url |-> Some(req.arg.external_url),
                     external_title |-> req.arg.external_title,
                     filename |-> None, original_filename |-> None,
                     file_path |-> None, file_size |-> None, mime_type |-> None,
                     description |-> req.arg.description,
                     created_at |-> now])
               /\ next_doc_id' = next_doc_id + 1
               /\ reqs' = [reqs EXCEPT ![r] =
                     [Goto(req, "law_audit") EXCEPT !.doc = Some([id |-> doc_id])]]
          ELSE /\ reqs' = [reqs EXCEPT ![r] = Respond(req, "INTERNAL_SERVER_ERROR",
                               "Failed to add formal law")]
               /\ UNCHANGED <<documents, next_doc_id>>
    /\ UNCHANGED <<now, submissions, next_sub_id, files, calendar_slots,
                   next_slot_id, uploader_sessions, admin_sessions, admin_users,
                   rate_limit_attempts, audit_log, next_token, jar,
                   fk_slot_on_delete, startup, schema, sweep>>

add_formal_law_audit(r) ==
    /\ reqs[r].pc = "law_audit"
    /\ log_audit("document_uploaded", "document", Unwrap(reqs[r].doc).id, "applicant")
    /\ reqs' = [reqs EXCEPT ![r] = Respond(reqs[r], "CREATED", "success")]
    /\ UNCHANGED <<now, submissions, next_sub_id, documents, next_doc_id, files,
                   calendar_slots, next_slot_id, uploader_sessions,
                   admin_sessions, admin_users, rate_limit_attempts, next_token,
                   jar, fk_slot_on_delete, startup, schema, sweep>>

\* "Get submission and verify ownership"
delete_document(r, slug, doc_id) ==
    /\ CanStart(r)
    /\ LET req == Begin(r, "delete_document", slug, doc_id, None)
           submission == get_submission_by_slug(slug)
       IN reqs' = [reqs EXCEPT ![r] =
            IF validate_slug(slug) /= "Ok"
            THEN Respond(req, "BAD_REQUEST", "InvalidSlug")
            ELSE IF submission = None
            THEN Respond(req, "NOT_FOUND", "Submission not found")
            ELSE CheckAuthorization(req, Unwrap(submission))]
    /\ UNCHANGED <<now, submissions, next_sub_id, documents, next_doc_id, files,
                   calendar_slots, next_slot_id, uploader_sessions,
                   admin_sessions, admin_users, rate_limit_attempts, audit_log,
                   next_token, jar, fk_slot_on_delete, startup, schema, sweep>>

\* the lookup by id alone
delete_document_select_any_submission(r) ==
    /\ reqs[r].pc = "delete_select"
    /\ LET req == reqs[r]
           doc_id == req.arg
       IN reqs' = [reqs EXCEPT ![r] =
            IF doc_id \in DOMAIN documents
            THEN [Goto(req, IF documents[doc_id].file_path /= None
                            THEN "delete_file" ELSE "delete_row")
                    EXCEPT !.doc = Some(documents[doc_id])]
            ELSE Respond(req, "NOT_FOUND", "Document not found")]
    /\ UNCHANGED <<now, submissions, next_sub_id, documents, next_doc_id, files,
                   calendar_slots, next_slot_id, uploader_sessions,
                   admin_sessions, admin_users, rate_limit_attempts, audit_log,
                   next_token, jar, fk_slot_on_delete, startup, schema, sweep>>

\* SELECT * FROM documents WHERE id = $1 AND submission_id = $2
delete_document_select(r) ==
    /\ reqs[r].pc = "delete_select"
    /\ LET req == reqs[r]
           doc_id == req.arg
       IN reqs' = [reqs EXCEPT ![r] =
            IF doc_id \in DOMAIN documents
               /\ documents[doc_id].submission_id = Unwrap(req.sub).id
            THEN [Goto(req, IF documents[doc_id].file_path /= None
                            THEN "delete_file" ELSE "delete_row")
                    EXCEPT !.doc = Some(documents[doc_id])]
            ELSE Respond(req, "NOT_FOUND", "Document not found")]
    /\ UNCHANGED <<now, submissions, next_sub_id, documents, next_doc_id, files,
                   calendar_slots, next_slot_id, uploader_sessions,
                   admin_sessions, admin_users, rate_limit_attempts, audit_log,
                   next_token, jar, fk_slot_on_delete, startup, schema, sweep>>

\* "Delete file if exists": let _ = fs::remove_file(file_path), a failure
\* is ignored
delete_document_file(r) ==
    /\ reqs[r].pc = "delete_file"
    /\ files' \in {files \ {Unwrap(Unwrap(reqs[r].doc).file_path)}, files}
    /\ reqs' = [reqs EXCEPT ![r] = Goto(reqs[r], "delete_row")]
    /\ UNCHANGED <<now, submissions, next_sub_id, documents, next_doc_id,
                   calendar_slots, next_slot_id, uploader_sessions,
                   admin_sessions, admin_users, rate_limit_attempts, audit_log,
                   next_token, jar, fk_slot_on_delete, startup, schema, sweep>>

\* DELETE FROM documents WHERE id = $1
delete_document_row(r) ==
    /\ reqs[r].pc = "delete_row"
    /\ documents' = Remove(documents, {reqs[r].arg})
    /\ reqs' = [reqs EXCEPT ![r] = Goto(reqs[r], "delete_audit")]
    /\ UNCHANGED <<now, submissions, next_sub_id, next_doc_id, files,
                   calendar_slots, next_slot_id, uploader_sessions,
                   admin_sessions, admin_users, rate_limit_attempts, audit_log,
                   next_token, jar, fk_slot_on_delete, startup, schema, sweep>>

delete_document_audit(r) ==
    /\ reqs[r].pc = "delete_audit"
    /\ log_audit("document_deleted", "document", reqs[r].arg, "applicant")
    /\ reqs' = [reqs EXCEPT ![r] = Respond(reqs[r], "OK", "success")]
    /\ UNCHANGED <<now, submissions, next_sub_id, documents, next_doc_id, files,
                   calendar_slots, next_slot_id, uploader_sessions,
                   admin_sessions, admin_users, rate_limit_attempts, next_token,
                   jar, fk_slot_on_delete, startup, schema, sweep>>

\* ---------------------------------------------------------------------------
\* Logging in and out: admin_login, admin_logout, uploader_login,
\* uploader_logout
\* ---------------------------------------------------------------------------
MAX_LOGIN_ATTEMPTS == 10
ADMIN_SESSION_HOURS == 8

\* the first address of X-Forwarded-For, else X-Real-IP, else "unknown"
get_client_ip(headers) ==
    IF headers.x_forwarded_for /= None /\ Unwrap(headers.x_forwarded_for) /= << >>
    THEN Head(Unwrap(headers.x_forwarded_for))
    ELSE IF headers.x_real_ip /= None THEN Unwrap(headers.x_real_ip)
    ELSE "unknown"

\* the limit that lets the attempt after the last one through
check_rate_limit_with_max_inclusive(ip, endpoint, max_attempts) ==
    LET recent == {a \in BagToSet(rate_limit_attempts) :
                      /\ a.ip_address = ip
                      /\ a.endpoint = endpoint
                      /\ a.attempted_at > now - 1}
    IN BagCardinality([a \in recent |-> rate_limit_attempts[a]]) <= max_attempts

\* SELECT COUNT(*) FROM rate_limit_attempts WHERE ip_address = $1 AND
\* endpoint = $2 AND attempted_at > NOW() - INTERVAL '1 hour'
check_rate_limit_with_max(ip, endpoint, max_attempts) ==
    LET recent == {a \in BagToSet(rate_limit_attempts) :
                      /\ a.ip_address = ip
                      /\ a.endpoint = endpoint
                      /\ a.attempted_at > now - 1}
    IN BagCardinality([a \in recent |-> rate_limit_attempts[a]]) < max_attempts

check_rate_limit(ip, endpoint) ==
    check_rate_limit_with_max(ip, endpoint, MAX_LOGIN_ATTEMPTS)

\* INSERT INTO rate_limit_attempts (ip_address, endpoint) VALUES ($1, $2)
record_attempt(ip, endpoint) ==
    rate_limit_attempts' = rate_limit_attempts (+)
        SetToBag({[ip_address |-> ip, endpoint |-> endpoint, attempted_at |-> now]})

\* the first cookie named rr_admin_session
extract_session_token(cookies) ==
    LET named == {i \in DOMAIN cookies : cookies[i][1] = SESSION_COOKIE}
    IN IF named = {} THEN None
       ELSE Some(cookies[CHOOSE i \in named : \A j \in named : i <= j][2])

\* the password check that accepts every password
verify_password_any(password, password_hash) == TRUE

\* Argon2 verify_password
verify_password(password, password_hash) == hash_password(password) = password_hash

\* the row INSERT INTO admin_sessions stores
AdminSessionRow(admin_user_id, token_hash, at, ip) ==
    [admin_user_id |-> admin_user_id, token_hash |-> token_hash,
     expires_at |-> at + ADMIN_SESSION_HOURS, ip_address |-> ip]

\* the row INSERT INTO uploader_sessions stores
UploaderSessionRow(submission_id, email, token_hash, at, ip) ==
    [submission_id |-> submission_id, email |-> email, token_hash |-> token_hash,
     expires_at |-> at + UPLOADER_SESSION_HOURS, ip_address |-> ip]

\* "Check rate limit"
admin_login(r, headers, input) ==
    /\ CanStart(r)
    /\ LET req == Begin(r, "admin_login", None,
                        [client_ip |-> get_client_ip(headers), input |-> input], None)
       IN reqs' = [reqs EXCEPT ![r] =
            IF ~check_rate_limit(get_client_ip(headers), "login")
            THEN Respond(req, "TOO_MANY_REQUESTS", "Too many login attempts. Please try again later.")
            ELSE Goto(req, "admin_login_record")]
    /\ UNCHANGED <<now, submissions, next_sub_id, documents, next_doc_id, files,
                   calendar_slots, next_slot_id, uploader_sessions,
                   admin_sessions, admin_users, rate_limit_attempts, audit_log,
                   next_token, jar, fk_slot_on_delete, startup, schema, sweep>>

\* "Record attempt"
admin_login_record(r) ==
    /\ reqs[r].pc = "admin_login_record"
    /\ record_attempt(reqs[r].arg.client_ip, "login")
    /\ reqs' = [reqs EXCEPT ![r] = Goto(reqs[r], "admin_login_find")]
    /\ UNCHANGED <<now, submissions, next_sub_id, documents, next_doc_id, files,
                   calendar_slots, next_slot_id, uploader_sessions,
                   admin_sessions, admin_users, audit_log, next_token, jar,
                   fk_slot_on_delete, startup, schema, sweep>>

\* "Find user", "Verify password", "Generate session token"
admin_login_find(r) ==
    /\ reqs[r].pc = "admin_login_find"
    /\ LET req == reqs[r]
           found == {u \in DOMAIN admin_users :
                        /\ admin_users[u].username = req.arg.input.username
                        /\ admin_users[u].is_active}
       IN IF found = {}
          THEN /\ reqs' = [reqs EXCEPT ![r] =
                     Respond(req, "UNAUTHORIZED", "Invalid username or password")]
               /\ UNCHANGED next_token
          ELSE \E u \in found :
                 IF ~verify_password(req.arg.input.password, admin_users[u].password_hash)
                 THEN /\ reqs' = [reqs EXCEPT ![r] =
                            Respond(req, "UNAUTHORIZED", "Invalid username or password")]
                      /\ UNCHANGED next_token
                 ELSE /\ reqs' = [reqs EXCEPT ![r] =
                            [Goto(req, "admin_login_session") EXCEPT !.session =
                               Some([user_id |-> u,
                                     token |-> generate_session_token(next_token),
                                     token_hash |->
                                         hash_token(generate_session_token(next_token)),
                                     at |-> now])]]
                      /\ next_token' = next_token + 1
    /\ UNCHANGED <<now, submissions, next_sub_id, documents, next_doc_id, files,
                   calendar_slots, next_slot_id, uploader_sessions,
                   admin_sessions, admin_users, rate_limit_attempts, audit_log,
                   jar, fk_slot_on_delete, startup, schema, sweep>>

\* "Create session"
admin_login_session(r) ==
    /\ reqs[r].pc = "admin_login_session"
    /\ LET session == Unwrap(reqs[r].session)
       IN admin_sessions' = admin_sessions \cup
             {AdminSessionRow(session.user_id, session.token_hash, session.at,
                              reqs[r].arg.client_ip)}
    /\ reqs' = [reqs EXCEPT ![r] = Goto(reqs[r], "admin_login_last_login")]
    /\ UNCHANGED <<now, submissions, next_sub_id, documents, next_doc_id, files,
                   calendar_slots, next_slot_id, uploader_sessions, admin_users,
                   rate_limit_attempts, audit_log, next_token, jar,
                   fk_slot_on_delete, startup, schema, sweep>>

\* "Update last login"
admin_login_last_login(r) ==
    /\ reqs[r].pc = "admin_login_last_login"
    /\ LET u == Unwrap(reqs[r].session).user_id
       IN admin_users' = [k \in DOMAIN admin_users |->
             IF k = u THEN [admin_users[k] EXCEPT !.last_login_at = Some(now)]
                      ELSE admin_users[k]]
    /\ reqs' = [reqs EXCEPT ![r] = Goto(reqs[r], "admin_login_audit")]
    /\ UNCHANGED <<now, submissions, next_sub_id, documents, next_doc_id, files,
                   calendar_slots, next_slot_id, uploader_sessions,
                   admin_sessions, rate_limit_attempts, audit_log, next_token,
                   jar, fk_slot_on_delete, startup, schema, sweep>>

\* "Log audit event", "Set secure cookie": the token leaves in Set-Cookie
admin_login_audit(r) ==
    /\ reqs[r].pc = "admin_login_audit"
    /\ log_audit("admin_login", "admin_user", Unwrap(reqs[r].session).user_id, "admin")
    /\ jar' = jar \cup {SetCookie(SESSION_COOKIE, Unwrap(reqs[r].session).token,
                                   8 * 3600)}
    /\ reqs' = [reqs EXCEPT ![r] = Respond(reqs[r], "OK", "success")]
    /\ UNCHANGED <<now, submissions, next_sub_id, documents, next_doc_id, files,
                   calendar_slots, next_slot_id, uploader_sessions,
                   admin_sessions, admin_users, rate_limit_attempts, next_token,
                   fk_slot_on_delete, startup, schema, sweep>>

\* "Get session for audit log"
admin_logout(r, cookies) ==
    /\ CanStart(r)
    /\ LET req == Begin(r, "admin_logout", None, None, Some(cookies))
           token == extract_session_token(cookies)
       IN reqs' = [reqs EXCEPT ![r] =
            IF token = None
            THEN Respond(req, "OK", "success")
            ELSE LET found == {s \in admin_sessions :
                                  s.token_hash = hash_token(Unwrap(token))}
                 IN [Goto(req, "admin_logout_delete") EXCEPT !.session =
                        IF found = {} THEN None ELSE Some(CHOOSE s \in found : TRUE)]]
    /\ UNCHANGED <<now, submissions, next_sub_id, documents, next_doc_id, files,
                   calendar_slots, next_slot_id, uploader_sessions,
                   admin_sessions, admin_users, rate_limit_attempts, audit_log,
                   next_token, jar, fk_slot_on_delete, startup, schema, sweep>>

\* the logout that ends every admin session
admin_logout_delete_all(r) ==
    /\ reqs[r].pc = "admin_logout_delete"
    /\ admin_sessions' = {}
    /\ reqs' = [reqs EXCEPT ![r] = Goto(reqs[r], "admin_logout_audit")]
    /\ UNCHANGED <<now, submissions, next_sub_id, documents, next_doc_id, files,
                   calendar_slots, next_slot_id, uploader_sessions, admin_users,
                   rate_limit_attempts, audit_log, next_token, jar,
                   fk_slot_on_delete, startup, schema, sweep>>

\* "Delete session"
admin_logout_delete(r) ==
    /\ reqs[r].pc = "admin_logout_delete"
    /\ LET token_hash == hash_token(Unwrap(extract_session_token(Unwrap(reqs[r].cookie))))
       IN admin_sessions' = {s \in admin_sessions : s.token_hash /= token_hash}
    /\ reqs' = [reqs EXCEPT ![r] = Goto(reqs[r], "admin_logout_audit")]
    /\ UNCHANGED <<now, submissions, next_sub_id, documents, next_doc_id, files,
                   calendar_slots, next_slot_id, uploader_sessions, admin_users,
                   rate_limit_attempts, audit_log, next_token, jar,
                   fk_slot_on_delete, startup, schema, sweep>>

\* "Log audit event" if a session was found, "Clear cookie"
admin_logout_audit(r) ==
    /\ reqs[r].pc = "admin_logout_audit"
    /\ IF reqs[r].session /= None
       THEN log_audit("admin_logout", "admin_user",
                      Unwrap(reqs[r].session).admin_user_id, "admin")
       ELSE UNCHANGED audit_log
    /\ reqs' = [reqs EXCEPT ![r] = Respond(reqs[r], "OK", "success")]
    /\ UNCHANGED <<now, submissions, next_sub_id, documents, next_doc_id, files,
                   calendar_slots, next_slot_id, uploader_sessions,
                   admin_sessions, admin_users, rate_limit_attempts, next_token,
                   jar, fk_slot_on_delete, startup, schema, sweep>>

\* str::trim
trim(str) == TrimEnd(TrimStart(str, {" "}), {" "})

\* "Check rate limit (10 attempts per hour per IP)"
uploader_login(r, headers, input) ==
    /\ CanStart(r)
    /\ LET req == Begin(r, "uploader_login", None,
                        [client_ip |-> get_client_ip(headers), input |-> input], None)
       IN reqs' = [reqs EXCEPT ![r] =
            IF ~check_rate_limit(get_client_ip(headers), "uploader_login")
            THEN Respond(req, "TOO_MANY_REQUESTS", "Te veel inlogpogingen. Probeer het later opnieuw.")
            ELSE Goto(req, "uploader_login_record")]
    /\ UNCHANGED <<now, submissions, next_sub_id, documents, next_doc_id, files,
                   calendar_slots, next_slot_id, uploader_sessions,
                   admin_sessions, admin_users, rate_limit_attempts, audit_log,
                   next_token, jar, fk_slot_on_delete, startup, schema, sweep>>

\* "Record attempt for rate limiting"
uploader_login_record(r) ==
    /\ reqs[r].pc = "uploader_login_record"
    /\ record_attempt(reqs[r].arg.client_ip, "uploader_login")
    /\ reqs' = [reqs EXCEPT ![r] = Goto(reqs[r], "uploader_login_find")]
    /\ UNCHANGED <<now, submissions, next_sub_id, documents, next_doc_id, files,
                   calendar_slots, next_slot_id, uploader_sessions,
                   admin_sessions, admin_users, audit_log, next_token, jar,
                   fk_slot_on_delete, startup, schema, sweep>>

\* "Validate input", "Find submission by slug AND email (case-insensitive)",
\* "Generate session token"
uploader_login_find(r) ==
    /\ reqs[r].pc = "uploader_login_find"
    /\ LET req == reqs[r]
           slug == to_lowercase(trim(req.arg.input.slug))
           email == to_lowercase(trim(req.arg.input.email))
           found == {i \in DOMAIN submissions :
                        /\ to_lowercase(submissions[i].slug) = slug
                        /\ submissions[i].submitter_email /= None
                        /\ to_lowercase(Unwrap(submissions[i].submitter_email)) = email}
       IN IF slug = << >> \/ email = << >>
          THEN /\ reqs' = [reqs EXCEPT ![r] = Respond(req, "BAD_REQUEST",
                               "Vul zowel referentiecode als e-mailadres in.")]
               /\ UNCHANGED next_token
          ELSE IF found = {}
          THEN /\ reqs' = [reqs EXCEPT ![r] = Respond(req, "UNAUTHORIZED",
                               "Ongeldige referentiecode of e-mailadres.")]
               /\ UNCHANGED next_token
          ELSE /\ \E i \in found :
                    reqs' = [reqs EXCEPT ![r] =
                       [Goto(req, "uploader_login_session") EXCEPT !.session =
                          Some([submission_id |-> i, email |-> email,
                                token |-> generate_session_token(next_token),
                                token_hash |->
                                    hash_token(generate_session_token(next_token)),
                                at |-> now])]]
               /\ next_token' = next_token + 1
    /\ UNCHANGED <<now, submissions, next_sub_id, documents, next_doc_id, files,
                   calendar_slots, next_slot_id, uploader_sessions,
                   admin_sessions, admin_users, rate_limit_attempts, audit_log,
                   jar, fk_slot_on_delete, startup, schema, sweep>>

\* "Create session"; the insert fails when the submission is gone
uploader_login_session(r) ==
    /\ reqs[r].pc = "uploader_login_session"
    /\ LET session == Unwrap(reqs[r].session)
       IN IF session.submission_id \in DOMAIN submissions
          THEN /\ uploader_sessions' = uploader_sessions \cup
                     {UploaderSessionRow(session.submission_id, session.email,
                                         session.token_hash, session.at,
                                         reqs[r].arg.client_ip)}
               /\ reqs' = [reqs EXCEPT ![r] = Goto(reqs[r], "uploader_login_audit")]
          ELSE /\ UNCHANGED uploader_sessions
               /\ reqs' = [reqs EXCEPT ![r] = Respond(reqs[r], "INTERNAL_SERVER_ERROR",
                               "Kon sessie niet aanmaken.")]
    /\ UNCHANGED <<now, submissions, next_sub_id, documents, next_doc_id, files,
                   calendar_slots, next_slot_id, admin_sessions, admin_users,
                   rate_limit_attempts, audit_log, next_token, jar,
                   fk_slot_on_delete, startup, schema, sweep>>

\* "Log audit event"
uploader_login_audit(r) ==
    /\ reqs[r].pc = "uploader_login_audit"
    /\ log_audit("uploader_login", "submission",
                 Unwrap(reqs[r].session).submission_id, "uploader")
    /\ reqs' = [reqs EXCEPT ![r] = Goto(reqs[r], "uploader_login_documents")]
    /\ UNCHANGED <<now, submissions, next_sub_id, documents, next_doc_id, files,
                   calendar_slots, next_slot_id, uploader_sessions,
                   admin_sessions, admin_users, rate_limit_attempts, next_token,
                   jar, fk_slot_on_delete, startup, schema, sweep>>

\* "Get documents for response", "Set secure cookie": the token leaves in
\* Set-Cookie
uploader_login_documents(r) ==
    /\ reqs[r].pc = "uploader_login_documents"
    /\ jar' = jar \cup {SetCookie(UPLOADER_SESSION_COOKIE, Unwrap(reqs[r].session).token,
                                   UPLOADER_SESSION_HOURS * 3600)}
    /\ reqs' = [reqs EXCEPT ![r] = Respond(reqs[r], "OK", "success")]
    /\ UNCHANGED <<now, submissions, next_sub_id, documents, next_doc_id, files,
                   calendar_slots, next_slot_id, uploader_sessions,
                   admin_sessions, admin_users, rate_limit_attempts, audit_log,
                   next_token, fk_slot_on_delete, startup, schema, sweep>>

\* "Get session for audit log"
uploader_logout(r, cookies) ==
    /\ CanStart(r)
    /\ LET req == Begin(r, "uploader_logout", None, None, Some(cookies))
           token == extract_uploader_session_token(cookies)
       IN reqs' = [reqs EXCEPT ![r] =
            IF token = None
            THEN Respond(req, "OK", "success")
            ELSE LET found == {s \in uploader_sessions :
                                  s.token_hash = hash_token(Unwrap(token))}
                 IN [Goto(req, "uploader_logout_delete") EXCEPT !.session =
                        IF found = {} THEN None ELSE Some(CHOOSE s \in found : TRUE)]]
    /\ UNCHANGED <<now, submissions, next_sub_id, documents, next_doc_id, files,
                   calendar_slots, next_slot_id, uploader_sessions,
                   admin_sessions, admin_users, rate_limit_attempts, audit_log,
                   next_token, jar, fk_slot_on_delete, startup, schema, sweep>>

\* "Delete session"
uploader_logout_delete(r) ==
    /\ reqs[r].pc = "uploader_logout_delete"
    /\ LET token_hash ==
               hash_token(Unwrap(extract_uploader_session_token(Unwrap(reqs[r].cookie))))
       IN uploader_sessions' = {s \in uploader_sessions : s.token_hash /= token_hash}
    /\ reqs' = [reqs EXCEPT ![r] = Goto(reqs[r], "uploader_logout_audit")]
    /\ UNCHANGED <<now, submissions, next_sub_id, documents, next_doc_id, files,
                   calendar_slots, next_slot_id, admin_sessions, admin_users,
                   rate_limit_attempts, audit_log, next_token, jar,
                   fk_slot_on_delete, startup, schema, sweep>>

\* "Log audit event" if a session was found, "Clear cookie"
uploader_logout_audit(r) ==
    /\ reqs[r].pc = "uploader_logout_audit"
    /\ IF reqs[r].session /= None
       THEN log_audit("uploader_logout", "submission",
                      Unwrap(reqs[r].session).submission_id, "uploader")
       ELSE UNCHANGED audit_log
    /\ reqs' = [reqs EXCEPT ![r] = Respond(reqs[r], "OK", "success")]
    /\ UNCHANGED <<now, submissions, next_sub_id, documents, next_doc_id, files,
                   calendar_slots, next_slot_id, uploader_sessions,
                   admin_sessions, admin_users, rate_limit_attempts, next_token,
                   jar, fk_slot_on_delete, startup, schema, sweep>>

\* ---------------------------------------------------------------------------
\* Specification of the documents of a submission
\* ---------------------------------------------------------------------------
\* UploadDocumentQuery
QueryInputs ==
    {q \in [category : DocumentCategory, classification : DocumentClassification,
            description : {None}] :
        q.classification = "claude_allowed" => q.category = "circular"}

PdfFile ==
    [file_name |-> Some(<<"a",".","p","d","f">>),
     content_type |-> Some("application/pdf"), size |-> 1]

\* the multipart body: no field, or one file
FileInputs ==
    {None,
     Some(PdfFile),
     Some([PdfFile EXCEPT !.size = max_upload_size + 1]),
     Some([PdfFile EXCEPT !.content_type = Some("text/html")]),
     Some([PdfFile EXCEPT !.file_name = Some(<<"a",".","P","H","P">>)]),
     Some([PdfFile EXCEPT !.file_name = None, !.content_type = None])}

\* CreateFormalLaw
LawInputs ==
    [external_url : {<<"h","t","t","p","s",":","/","/","w">>, <<"f","t","p",":","/","/","w">>,
                     <<" ">>},
     external_title : {None}, description : {None}]

\* the documents there are and one there is not
DocIdInputs == DOMAIN documents \cup {0}

\* a token nobody was issued
ForgedToken == <<"t", "x">>

\* Cookie headers: none, a session cookie with a token a client holds or a
\* made-up one, and an issued token under the admin cookie's name
CookieInputs ==
    {<< >>}
        \cup {<< <<UPLOADER_SESSION_COOKIE, t>> >> : t \in JarTokens \cup {ForgedToken}}
        \cup {<< <<SESSION_COOKIE, generate_session_token(1)>> >>}

\* the steps of the three handlers after their first
DocumentSteps ==
    \/ \E r \in Reqs : validate_uploader_session_submission(r)
    \/ \E r \in Reqs : upload_document_store(r)
    \/ \E r \in Reqs : upload_document_insert(r)
    \/ \E r \in Reqs : upload_document_audit(r)
    \/ \E r \in Reqs : add_formal_law_insert(r)
    \/ \E r \in Reqs : add_formal_law_audit(r)
    \/ \E r \in Reqs : delete_document_select(r)
    \/ \E r \in Reqs : delete_document_file(r)
    \/ \E r \in Reqs : delete_document_row(r)
    \/ \E r \in Reqs : delete_document_audit(r)

\* who may touch the documents of a submission: every slug and every kind
\* of Cookie header, with one well-formed document of each kind, as time
\* passes and sessions expire
\* the submitted submission, a draft, and a submission that does not exist
AuthSlugs == {generate_submission_slug(n) : n \in {1, MaxSubs}} \cup {UnknownSlug}

NextDocAuth ==
    \/ \E r \in Reqs, slug \in AuthSlugs : upload_document(r, slug,
               [category |-> "circular", classification |-> "public", description |-> None])
    \/ \E r \in Reqs, slug \in AuthSlugs : add_formal_law(r, slug,
               [external_url |-> <<"h","t","t","p","s",":","/","/","w">>,
                external_title |-> None, description |-> None])
    \/ \E r \in Reqs, slug \in AuthSlugs, doc_id \in DocIdInputs :
           delete_document(r, slug, doc_id)
    \/ \E r \in Reqs, cookies \in CookieInputs : validate_uploader_session(r, cookies)
    \/ \E r \in Reqs : upload_document_read(r, Some(PdfFile))
    \/ DocumentSteps
    \/ Tick

\* what gets stored: every query, body and link, sent for the submitted
\* submission and for a draft, by clients that hold the session of
\* submission 1 or none
ShapeSlugs == {submissions[i].slug : i \in DOMAIN submissions \cap {1, MaxSubs}}

NextDocShape ==
    \/ \E r \in Reqs, slug \in ShapeSlugs, query \in QueryInputs :
           upload_document(r, slug, query)
    \/ \E r \in Reqs, slug \in ShapeSlugs, input \in LawInputs :
           add_formal_law(r, slug, input)
    \/ \E r \in Reqs, slug \in ShapeSlugs, doc_id \in DOMAIN documents :
           delete_document(r, slug, doc_id)
    \/ \E r \in Reqs,
          cookies \in {<< >>, << <<UPLOADER_SESSION_COOKIE, generate_session_token(1)>> >>} :
           validate_uploader_session(r, cookies)
    \/ \E r \in Reqs, field \in FileInputs : upload_document_read(r, field)
    \/ DocumentSteps


\* the logins of the initial state happened so long ago that the uploader
\* sessions expire at MaxTime
LoginTime == MaxTime - UPLOADER_SESSION_HOURS
LoginIp == "1.2.3.4"

\* submission 1 has been submitted, the others are drafts; the uploaders of
\* submission 1 and of the last submission and the admin are logged in, and
\* the rate limit entries of those logins have been cleaned up
InitLoggedIn(max_reqs) ==
    /\ now = 0
    /\ submissions = [i \in 1..MaxSubs |->
          [SubmissionRow(i, IF i = 1 THEN "submitted" ELSE "draft",
                         IF i = 1 THEN Some(LoginTime) ELSE None)
              EXCEPT !.created_at = LoginTime]]
    /\ next_sub_id = MaxSubs + 1
    /\ documents = << >>
    /\ next_doc_id = 1
    /\ files = {}
    /\ InitSlots(0)
    /\ uploader_sessions =
           {UploaderSessionRow(1, <<"j","@","x">>, hash_token(generate_session_token(1)),
                               LoginTime, LoginIp),
            UploaderSessionRow(MaxSubs, <<"j","@","x">>,
                               hash_token(generate_session_token(2)), LoginTime, LoginIp)}
    /\ admin_sessions =
           {AdminSessionRow(1, hash_token(generate_session_token(3)), LoginTime, LoginIp)}
    /\ jar = {SetCookie(UPLOADER_SESSION_COOKIE, generate_session_token(1), UPLOADER_SESSION_HOURS * 3600),
              SetCookie(UPLOADER_SESSION_COOKIE, generate_session_token(2), UPLOADER_SESSION_HOURS * 3600),
              SetCookie(SESSION_COOKIE, generate_session_token(3), ADMIN_SESSION_HOURS * 3600)}
    /\ next_token = 4
    /\ admin_users = (1 :> [AdminRow(1, TRUE) EXCEPT !.last_login_at = Some(LoginTime)])
    /\ audit_log = SetToBag({AuditEntry("uploader_login", "submission", 1, "uploader"),
                             AuditEntry("uploader_login", "submission", MaxSubs, "uploader"),
                             AuditEntry("admin_login", "admin_user", 1, "admin")})
    /\ fk_slot_on_delete = "no_action"
    /\ Serving
    /\ reqs = [r \in 1..max_reqs |-> IdleReq]
    /\ sweep = SweepIdle

InitDocs == InitLoggedIn(MaxDocReqs) /\ rate_limit_attempts = EmptyBag

SpecDocAuth == InitDocs /\ [][NextDocAuth]_vars

SpecDocShape == InitDocs /\ [][NextDocShape]_vars

\* ---------------------------------------------------------------------------
\* Properties of the documents
\* ---------------------------------------------------------------------------
DocumentOps == {"upload_document", "add_formal_law", "delete_document"}

\* the positions of a handler after its authorization check
AuthorizedPcs ==
    {"upload_read", "upload_store", "upload_insert", "upload_audit",
     "law_insert", "law_audit",
     "delete_select", "delete_file", "delete_row", "delete_audit"}

\* the Cookie header carries the token of a stored, unexpired session
CarriesLiveSession(cookies) ==
    LET token == extract_uploader_session_token(cookies)
    IN /\ token /= None
       /\ \E s \in uploader_sessions :
              s.token_hash = hash_token(Unwrap(token)) /\ s.expires_at > now

WasUnauthorized(req) ==
    /\ req.pc = "done"
    /\ req.result = Response("UNAUTHORIZED",
           IF req.op = "delete_document" THEN DeleteUnauthorized ELSE UploadUnauthorized)

\* the first step of a request for an existing submission: a draft goes
\* straight on, any other status leads to the session check
C7_Start(r) ==
    (/\ reqs[r].pc = "idle"
     /\ reqs'[r].op \in DocumentOps
     /\ reqs'[r].pc /= "done"
     /\ KnownSlug(reqs'[r].slug))
    => LET submission == Unwrap(get_submission_by_slug(reqs'[r].slug))
       IN reqs'[r].pc = IF submission.status = "draft"
                        THEN AfterAuth(reqs'[r].op) ELSE "auth_session"

\* the session lookup: without a stored, unexpired session for the token of
\* the Cookie header the request ends as unauthorized
C7_Lookup(r) ==
    (reqs[r].pc = "auth_session" /\ reqs'[r] /= reqs[r])
    => IF CarriesLiveSession(Unwrap(reqs'[r].cookie))
       THEN /\ reqs'[r].pc = "auth_submission"
            /\ Unwrap(reqs'[r].session) \in uploader_sessions
            /\ Unwrap(reqs'[r].session).token_hash =
                  hash_token(Unwrap(extract_uploader_session_token(Unwrap(reqs'[r].cookie))))
            /\ Unwrap(reqs'[r].session).expires_at > now
       ELSE WasUnauthorized(reqs'[r])

\* the comparison: a session of another submission ends as unauthorized
C7_Bound(r) ==
    (reqs[r].pc = "auth_submission" /\ reqs'[r] /= reqs[r])
    => IF /\ Unwrap(reqs[r].session).submission_id \in DOMAIN submissions
          /\ Unwrap(reqs[r].session).submission_id = Unwrap(reqs[r].sub).id
       THEN reqs'[r].pc = AfterAuth(reqs[r].op)
       ELSE WasUnauthorized(reqs'[r])

\* documents and files change only in a step of a request that is past its
\* authorization check
C7_Effect ==
    (documents' /= documents \/ files' /= files)
    => \E r \in Reqs : reqs[r].pc \in AuthorizedPcs /\ reqs'[r] /= reqs[r]

\* a request past the authorization check for a submission it read as not
\* draft holds a session of that submission, found by its cookie's token
C7_Authorized ==
    \A r \in Reqs :
        (/\ reqs[r].op \in DocumentOps
         /\ reqs[r].pc \in AuthorizedPcs
         /\ Unwrap(reqs[r].sub).status /= "draft")
        => /\ reqs[r].session /= None
           /\ Unwrap(reqs[r].session).submission_id = Unwrap(reqs[r].sub).id
           /\ Unwrap(reqs[r].session).token_hash =
                 hash_token(Unwrap(extract_uploader_session_token(Unwrap(reqs[r].cookie))))

\* C7: for a submission that is not draft, upload_document, add_formal_law
\* and delete_document go past their authorization check, and so change a
\* document or a file, only with a Cookie header whose token has a stored,
\* unexpired uploader session of that very submission; with no session, an
\* expired one or one of another submission they answer unauthorized and
\* change nothing. For a draft the slug is enough.
C7_NonDraftNeedsOwnSession ==
    /\ [][/\ \A r \in Reqs : C7_Start(r) /\ C7_Lookup(r) /\ C7_Bound(r)
          /\ C7_Effect]_vars
    /\ []C7_Authorized

\* a document was added to the submitted submission with its own session,
\* and a request with the session of another submission was refused
C7_Witness ==
    \E r1 \in Reqs, r2 \in Reqs :
        /\ reqs[r1].op \in DocumentOps /\ reqs[r1].pc = "done"
        /\ reqs[r1].result = Response("CREATED", "success")
        /\ reqs[r1].slug = submissions[1].slug
        /\ reqs[r1].cookie = Some(<< <<UPLOADER_SESSION_COOKIE, generate_session_token(1)>> >>)
        /\ submissions[1].status /= "draft"
        /\ \E d \in DOMAIN documents : documents[d].submission_id = 1
        /\ WasUnauthorized(reqs[r2])
        /\ reqs[r2].slug = submissions[1].slug
        /\ reqs[r2].cookie = Some(<< <<UPLOADER_SESSION_COOKIE, generate_session_token(2)>> >>)

FileFields(doc) ==
    <<doc.filename, doc.original_filename, doc.file_path, doc.file_size, doc.mime_type>>

\* C8: no stored document is classified restricted, and no upload_document
\* request with classification restricted gets past its first checks, so it
\* writes no file and inserts no row; add_formal_law stores public only.
C8_NoRestrictedDocument ==
    /\ \A d \in DOMAIN documents : documents[d].classification /= "restricted"
    /\ \A r \in Reqs :
           (reqs[r].op = "upload_document" /\ reqs[r].pc \notin {"idle", "done"})
               => reqs[r].arg.classification /= "restricted"
    /\ \A r \in Reqs :
           (reqs[r].op = "add_formal_law" /\ reqs[r].pc = "law_audit"
               /\ Unwrap(reqs[r].doc).id \in DOMAIN documents)
               => documents[Unwrap(reqs[r].doc).id].classification = "public"

\* an upload classified restricted was refused while another upload was
\* stored, and nothing but the stored document's file is on disk
C8_Witness ==
    \E r1 \in Reqs, r2 \in Reqs :
        /\ Done(r1, "upload_document")
        /\ reqs[r1].result = Response("BAD_REQUEST", RestrictedMsg)
        /\ Done(r2, "upload_document")
        /\ reqs[r2].result = Response("CREATED", "success")
        /\ \E d \in DOMAIN documents :
               /\ documents[d].classification = "claude_allowed"
               /\ files = {Unwrap(documents[d].file_path)}

\* C9: a formal_law document is public, has an external URL and none of the
\* file fields; every other document, and every document an upload_document
\* request has inserted, has all file fields and no external URL; no
\* upload_document request with category formal_law gets past its first
\* checks.
C9_DocumentShapes ==
    /\ \A d \in DOMAIN documents :
           IF documents[d].category = "formal_law"
           THEN /\ documents[d].classification = "public"
                /\ documents[d].external_url /= None
                /\ \A i \in 1..5 : FileFields(documents[d])[i] = None
           ELSE /\ \A i \in 1..5 : FileFields(documents[d])[i] /= None
                /\ documents[d].external_url = None
    /\ \A r \in Reqs :
           (reqs[r].op = "upload_document" /\ reqs[r].pc \notin {"idle", "done"})
               => reqs[r].arg.category /= "formal_law"
    /\ \A r \in Reqs :
           (reqs[r].op = "upload_document" /\ reqs[r].pc = "upload_audit"
               /\ Unwrap(reqs[r].doc).id \in DOMAIN documents)
               => /\ \A i \in 1..5 : FileFields(documents[Unwrap(reqs[r].doc).id])[i] /= None
                  /\ documents[Unwrap(reqs[r].doc).id].external_url = None

\* a formal law and an uploaded file are stored side by side, and an upload
\* with category formal_law was refused
C9_Witness ==
    /\ \E d1 \in DOMAIN documents, d2 \in DOMAIN documents :
           /\ documents[d1].category = "formal_law"
           /\ documents[d2].category = "work_instruction"
           /\ documents[d2].mime_type = Some("application/pdf")
    /\ \E r \in Reqs : reqs[r].op \in {"upload_document", "add_formal_law"}

\* ---------------------------------------------------------------------------
\* Specification of logging in and out
\* ---------------------------------------------------------------------------
\* request headers: behind a proxy chain, or without any address header
HeaderInputs ==
    {[x_forwarded_for |-> Some(<<LoginIp, "10.0.0.1">>), x_real_ip |-> Some("10.0.0.1")],
     [x_forwarded_for |-> None, x_real_ip |-> None]}

\* LoginRequest
LoginInputs ==
    {[username |-> "admin", password |-> "secret"],
     [username |-> "admin", password |-> "wrong"],
     [username |-> "eve", password |-> "secret"]}

\* UploaderLoginRequest: the right pair as typed by a user, a wrong e-mail
\* address, an unknown code, a blank code
UploaderLoginInputs ==
    {[slug |-> <<" ","R","R","-","1">>, email |-> <<"J","@","x"," ">>],
     [slug |-> <<"r","r","-","1">>, email |-> <<"e","@","x">>],
     [slug |-> UnknownSlug, email |-> <<"j","@","x">>],
     [slug |-> <<" ">>, email |-> <<"j","@","x">>]}

AdminCookieInputs ==
    {<< >>}
        \cup {<< <<SESSION_COOKIE, t>> >> : t \in JarTokens \cup {ForgedToken}}

UploaderCookieInputs ==
    {<< >>}
        \cup {<< <<UPLOADER_SESSION_COOKIE, t>> >> : t \in JarTokens \cup {ForgedToken}}

NextAuth ==
    \/ \E r \in Reqs, headers \in HeaderInputs, input \in LoginInputs :
           admin_login(r, headers, input)
    \/ \E r \in Reqs : admin_login_record(r)
    \/ \E r \in Reqs : admin_login_find(r)
    \/ \E r \in Reqs : admin_login_session(r)
    \/ \E r \in Reqs : admin_login_last_login(r)
    \/ \E r \in Reqs : admin_login_audit(r)
    \/ \E r \in Reqs, cookies \in AdminCookieInputs : admin_logout(r, cookies)
    \/ \E r \in Reqs : admin_logout_delete(r)
    \/ \E r \in Reqs : admin_logout_audit(r)
    \/ \E r \in Reqs, headers \in HeaderInputs, input \in UploaderLoginInputs :
           uploader_login(r, headers, input)
    \/ \E r \in Reqs : uploader_login_record(r)
    \/ \E r \in Reqs : uploader_login_find(r)
    \/ \E r \in Reqs : uploader_login_session(r)
    \/ \E r \in Reqs : uploader_login_audit(r)
    \/ \E r \in Reqs : uploader_login_documents(r)
    \/ \E r \in Reqs, cookies \in UploaderCookieInputs : uploader_logout(r, cookies)
    \/ \E r \in Reqs : uploader_logout_delete(r)
    \/ \E r \in Reqs : uploader_logout_audit(r)

\* the address of the earlier logins has just used up its attempts on both
\* login endpoints
InitAuth ==
    /\ InitLoggedIn(MaxAuthReqs)
    /\ rate_limit_attempts =
           [a \in {[ip_address |-> LoginIp, endpoint |-> e, attempted_at |-> 0] :
                      e \in {"login", "uploader_login"}}
               |-> MAX_LOGIN_ATTEMPTS]

SpecAuth == InitAuth /\ [][NextAuth]_vars

\* ---------------------------------------------------------------------------
\* Properties of the session stores
\* ---------------------------------------------------------------------------
\* the tokens generated so far
GeneratedTokens == {generate_session_token(n) : n \in 1..(next_token - 1)}

HoldsOnlyHash(session) ==
    /\ session.token_hash \notin GeneratedTokens
    /\ \E token \in GeneratedTokens : session.token_hash = hash_token(token)

\* C10: every row of admin_sessions and of uploader_sessions holds the hash
\* of a token that was generated and not a token itself; clients hold only
\* tokens a finished login handed out, and a login that has not answered
\* yet has handed out nothing.
C10_OnlyTokenHashesStored ==
    /\ \A s \in admin_sessions : HoldsOnlyHash(s)
    /\ \A s \in uploader_sessions : HoldsOnlyHash(s)
    /\ JarTokens \subseteq GeneratedTokens
    /\ \A r \in Reqs :
           (reqs[r].op \in {"admin_login", "uploader_login"}
               /\ reqs[r].pc /= "done" /\ reqs[r].session /= None)
           => Unwrap(reqs[r].session).token \notin JarTokens

\* an admin and an uploader have logged in: both stores hold a new row and
\* both clients hold their token
C10_Witness ==
    \E r1 \in Reqs, r2 \in Reqs :
        /\ Done(r1, "admin_login") /\ Succeeded(r1)
        /\ Done(r2, "uploader_login") /\ Succeeded(r2)
        /\ \E s \in admin_sessions, u \in uploader_sessions, t1 \in JarTokens, t2 \in JarTokens :
               /\ t1 /= t2
               /\ s.token_hash = hash_token(t1) /\ s.expires_at = now + ADMIN_SESSION_HOURS
               /\ u.token_hash = hash_token(t2)
               /\ u.expires_at = now + UPLOADER_SESSION_HOURS

\* ---------------------------------------------------------------------------
\* Session validation: require_admin, get_current_admin, get_current_uploader
\* ---------------------------------------------------------------------------
\* the session lookup that also accepts the sessions of uploaders
ValidAdminSessions_or_uploader(token_hash) ==
    {s \in admin_sessions : s.token_hash = token_hash /\ s.expires_at > now}
        \cup {AdminSessionRow(1, u.token_hash, now, u.ip_address) :
                 u \in ValidUploaderSessions(token_hash)}

\* SELECT * FROM admin_sessions WHERE token_hash = $1 AND expires_at > NOW()
ValidAdminSessions(token_hash) ==
    {s \in admin_sessions : s.token_hash = token_hash /\ s.expires_at > now}

\* SELECT * FROM admin_users WHERE id = $1 AND is_active = true
ActiveAdmin(admin_user_id) ==
    admin_user_id \in DOMAIN admin_users /\ admin_users[admin_user_id].is_active

\* the middleware of the admin routes: the token of the Cookie header, then
\* "Find valid session"
require_admin(r, cookies) ==
    /\ CanStart(r)
    /\ LET req == Begin(r, "require_admin", None, None, Some(cookies))
           token == extract_session_token(cookies)
       IN IF token = None
          THEN reqs' = [reqs EXCEPT ![r] = Respond(req, "UNAUTHORIZED", "Not authenticated")]
          ELSE LET found == ValidAdminSessions(hash_token(Unwrap(token)))
               IN IF found = {}
                  THEN reqs' = [reqs EXCEPT ![r] =
                           Respond(req, "UNAUTHORIZED", "Session expired or invalid")]
                  ELSE \E session \in found :
                         reqs' = [reqs EXCEPT ![r] =
                             [Goto(req, "require_admin_user") EXCEPT !.session = Some(session)]]
    /\ UNCHANGED <<now, submissions, next_sub_id, documents, next_doc_id, files,
                   calendar_slots, next_slot_id, uploader_sessions,
                   admin_sessions, admin_users, rate_limit_attempts, audit_log,
                   next_token, jar, fk_slot_on_delete, startup, schema, sweep>>

\* the middleware without the check that the user is active
require_admin_user_any(r) ==
    /\ reqs[r].pc = "require_admin_user"
    /\ reqs' = [reqs EXCEPT ![r] = Respond(reqs[r], "OK", "next.run")]
    /\ UNCHANGED <<now, submissions, next_sub_id, documents, next_doc_id, files,
                   calendar_slots, next_slot_id, uploader_sessions,
                   admin_sessions, admin_users, rate_limit_attempts, audit_log,
                   next_token, jar, fk_slot_on_delete, startup, schema, sweep>>

\* "Get associated user", then next.run(request): the route's handler runs
require_admin_user(r) ==
    /\ reqs[r].pc = "require_admin_user"
    /\ reqs' = [reqs EXCEPT ![r] =
          IF ActiveAdmin(Unwrap(reqs[r].session).admin_user_id)
          THEN Respond(reqs[r], "OK", "next.run")
          ELSE Respond(reqs[r], "UNAUTHORIZED", "User not found or inactive")]
    /\ UNCHANGED <<now, submissions, next_sub_id, documents, next_doc_id, files,
                   calendar_slots, next_slot_id, uploader_sessions,
                   admin_sessions, admin_users, rate_limit_attempts, audit_log,
                   next_token, jar, fk_slot_on_delete, startup, schema, sweep>>

\* GET /api/admin/me: validate_admin_session, "Find valid session"
get_current_admin(r, cookies) ==
    /\ CanStart(r)
    /\ LET req == Begin(r, "get_current_admin", None, None, Some(cookies))
           token == extract_session_token(cookies)
       IN IF token = None
          THEN reqs' = [reqs EXCEPT ![r] = Respond(req, "UNAUTHORIZED", "Not authenticated")]
          ELSE LET found == ValidAdminSessions(hash_token(Unwrap(token)))
               IN IF found = {}
                  THEN reqs' = [reqs EXCEPT ![r] =
                           Respond(req, "UNAUTHORIZED", "Not authenticated")]
                  ELSE \E session \in found :
                         reqs' = [reqs EXCEPT ![r] =
                             [Goto(req, "validate_admin_user") EXCEPT !.session = Some(session)]]
    /\ UNCHANGED <<now, submissions, next_sub_id, documents, next_doc_id, files,
                   calendar_slots, next_slot_id, uploader_sessions,
                   admin_sessions, admin_users, rate_limit_attempts, audit_log,
                   next_token, jar, fk_slot_on_delete, startup, schema, sweep>>

\* validate_admin_session, "Get associated user"
validate_admin_session(r) ==
    /\ reqs[r].pc = "validate_admin_user"
    /\ reqs' = [reqs EXCEPT ![r] =
          IF ActiveAdmin(Unwrap(reqs[r].session).admin_user_id)
          THEN Respond(reqs[r], "OK", "success")
          ELSE Respond(reqs[r], "UNAUTHORIZED", "Not authenticated")]
    /\ UNCHANGED <<now, submissions, next_sub_id, documents, next_doc_id, files,
                   calendar_slots, next_slot_id, uploader_sessions,
                   admin_sessions, admin_users, rate_limit_attempts, audit_log,
                   next_token, jar, fk_slot_on_delete, startup, schema, sweep>>

\* GET the current uploader: validate_uploader_session, "Find valid session"
get_current_uploader(r, cookies) ==
    /\ CanStart(r)
    /\ LET req == Begin(r, "get_current_uploader", None, None, Some(cookies))
           token == extract_uploader_session_token(cookies)
       IN IF token = None
          THEN reqs' = [reqs EXCEPT ![r] = Respond(req, "UNAUTHORIZED", "Niet ingelogd.")]
          ELSE LET found == ValidUploaderSessions(hash_token(Unwrap(token)))
               IN IF found = {}
                  THEN reqs' = [reqs EXCEPT ![r] =
                           Respond(req, "UNAUTHORIZED", "Niet ingelogd.")]
                  ELSE \E session \in found :
                         reqs' = [reqs EXCEPT ![r] =
                             [Goto(req, "current_uploader_submission")
                                 EXCEPT !.session = Some(session)]]
    /\ UNCHANGED <<now, submissions, next_sub_id, documents, next_doc_id, files,
                   calendar_slots, next_slot_id, uploader_sessions,
                   admin_sessions, admin_users, rate_limit_attempts, audit_log,
                   next_token, jar, fk_slot_on_delete, startup, schema, sweep>>

\* validate_uploader_session, "Get associated submission", then the
\* documents of the response
get_current_uploader_submission(r) ==
    /\ reqs[r].pc = "current_uploader_submission"
    /\ reqs' = [reqs EXCEPT ![r] =
          IF get_submission_by_id(Unwrap(reqs[r].session).submission_id) /= None
          THEN Respond(reqs[r], "OK", "success")
          ELSE Respond(reqs[r], "UNAUTHORIZED", "Niet ingelogd.")]
    /\ UNCHANGED <<now, submissions, next_sub_id, documents, next_doc_id, files,
                   calendar_slots, next_slot_id, uploader_sessions,
                   admin_sessions, admin_users, rate_limit_attempts, audit_log,
                   next_token, jar, fk_slot_on_delete, startup, schema, sweep>>

\* ---------------------------------------------------------------------------
\* Specification of session validation, with logins and logouts going on
\* ---------------------------------------------------------------------------
\* Cookie headers: none, or one cookie of either name with a token a client
\* holds or a made-up one
GateCookies == AdminCookieInputs \cup UploaderCookieInputs

\* logins come without proxy headers here
NextGate ==
    \/ \E r \in Reqs, input \in LoginInputs :
           admin_login(r, [x_forwarded_for |-> None, x_real_ip |-> None], input)
    \/ \E r \in Reqs : admin_login_record(r)
    \/ \E r \in Reqs : admin_login_find(r)
    \/ \E r \in Reqs : admin_login_session(r)
    \/ \E r \in Reqs : admin_login_last_login(r)
    \/ \E r \in Reqs : admin_login_audit(r)
    \/ \E r \in Reqs, cookies \in AdminCookieInputs : admin_logout(r, cookies)
    \/ \E r \in Reqs : admin_logout_delete(r)
    \/ \E r \in Reqs : admin_logout_audit(r)
    \/ \E r \in Reqs, input \in UploaderLoginInputs :
           uploader_login(r, [x_forwarded_for |-> None, x_real_ip |-> None], input)
    \/ \E r \in Reqs : uploader_login_record(r)
    \/ \E r \in Reqs : uploader_login_find(r)
    \/ \E r \in Reqs : uploader_login_session(r)
    \/ \E r \in Reqs : uploader_login_audit(r)
    \/ \E r \in Reqs : uploader_login_documents(r)
    \/ \E r \in Reqs, cookies \in UploaderCookieInputs : uploader_logout(r, cookies)
    \/ \E r \in Reqs : uploader_logout_delete(r)
    \/ \E r \in Reqs : uploader_logout_audit(r)
    \/ \E r \in Reqs, cookies \in GateCookies : require_admin(r, cookies)
    \/ \E r \in Reqs : require_admin_user(r)
    \/ \E r \in Reqs, cookies \in GateCookies : get_current_admin(r, cookies)
    \/ \E r \in Reqs : validate_admin_session(r)
    \/ \E r \in Reqs, cookies \in GateCookies : get_current_uploader(r, cookies)
    \/ \E r \in Reqs : get_current_uploader_submission(r)

\* after three logins: the uploader of submission 1, and the administrator
\* twice, the first time so long ago that the session has expired; the
\* administrator's account may have been deactivated since
InitGate ==
    /\ now = 0
    /\ submissions = [i \in 1..MaxSubs |->
          [SubmissionRow(i, IF i = 1 THEN "submitted" ELSE "draft",
                         IF i = 1 THEN Some(LoginTime) ELSE None)
              EXCEPT !.created_at = LoginTime]]
    /\ next_sub_id = MaxSubs + 1
    /\ documents = << >>
    /\ next_doc_id = 1
    /\ files = {}
    /\ InitSlots(0)
    /\ uploader_sessions =
           {UploaderSessionRow(1, <<"j","@","x">>, hash_token(generate_session_token(1)),
                               LoginTime, LoginIp)}
    /\ admin_sessions =
           {AdminSessionRow(1, hash_token(generate_session_token(2)), LoginTime, LoginIp),
            AdminSessionRow(1, hash_token(generate_session_token(3)),
                            0 - ADMIN_SESSION_HOURS, LoginIp)}
    /\ jar = {SetCookie(UPLOADER_SESSION_COOKIE, generate_session_token(1), UPLOADER_SESSION_HOURS * 3600),
              SetCookie(SESSION_COOKIE, generate_session_token(2), ADMIN_SESSION_HOURS * 3600),
              SetCookie(SESSION_COOKIE, generate_session_token(3), ADMIN_SESSION_HOURS * 3600)}
    /\ next_token = 4
    /\ \E is_active \in BOOLEAN :
           admin_users = (1 :> [AdminRow(1, is_active) EXCEPT !.last_login_at = Some(LoginTime)])
    /\ rate_limit_attempts = EmptyBag
    /\ audit_log = SetToBag({AuditEntry("uploader_login", "submission", 1, "uploader")})
                      (+) [e \in {AuditEntry("admin_login", "admin_user", 1, "admin")} |-> 2]
    /\ fk_slot_on_delete = "no_action"
    /\ Serving
    /\ reqs = [r \in 1..MaxGateReqs |-> IdleReq]
    /\ sweep = SweepIdle

SpecGate == InitGate /\ [][NextGate]_vars

\* ---------------------------------------------------------------------------
\* Properties of session validation and of login failures
\* ---------------------------------------------------------------------------
\* the tokens a login endpoint handed out under its cookie name
IssuedAs(name) == {c[2] : c \in {c \in jar : c[1] = name}}

\* the tokens of a request's Cookie header
PresentedTokens(req) ==
    {Unwrap(req.cookie)[i][2] : i \in DOMAIN Unwrap(req.cookie)}

Admitted(r) ==
    reqs[r].pc = "done" /\ Unwrap(reqs[r].result).status = "OK"

\* C11: no request is let through require_admin or validate_admin_session
\* with a token that uploader_login issued, under either cookie name, and
\* none is let through validate_uploader_session with a token that
\* admin_login issued, whatever logins and logouts happen.
C11_NamespacesApart ==
    \A r \in Reqs :
        Admitted(r) =>
            /\ reqs[r].op \in {"require_admin", "get_current_admin"}
                  => PresentedTokens(reqs[r]) \cap IssuedAs(UPLOADER_SESSION_COOKIE) = {}
            /\ reqs[r].op = "get_current_uploader"
                  => PresentedTokens(reqs[r]) \cap IssuedAs(SESSION_COOKIE) = {}

\* an uploader's live token was refused by the admin middleware under the
\* admin cookie's name, and an administrator's live token by the uploader
\* validation under the uploader cookie's name
C11_Witness ==
    \E r1 \in Reqs, r2 \in Reqs :
        /\ Done(r1, "require_admin") /\ ~Admitted(r1)
        /\ \E t \in IssuedAs(UPLOADER_SESSION_COOKIE) :
               /\ reqs[r1].cookie = Some(<< <<SESSION_COOKIE, t>> >>)
               /\ ValidUploaderSessions(hash_token(t)) /= {}
        /\ Done(r2, "get_current_uploader") /\ ~Admitted(r2)
        /\ \E t \in IssuedAs(SESSION_COOKIE) :
               /\ reqs[r2].cookie = Some(<< <<UPLOADER_SESSION_COOKIE, t>> >>)
               /\ ValidAdminSessions(hash_token(t)) /= {}
               /\ \A s \in ValidAdminSessions(hash_token(t)) : ActiveAdmin(s.admin_user_id)

\* the stored admin sessions of the token a request presented
PresentedAdminSessions(req) ==
    LET token == extract_session_token(Unwrap(req.cookie))
    IN IF token = None THEN {}
       ELSE {a \in admin_sessions : a.token_hash = hash_token(Unwrap(token))}

\* a request was refused whose token has a stored session that has expired
RefusedExpired(r, op) ==
    /\ Done(r, op) /\ ~Admitted(r)
    /\ \E a \in PresentedAdminSessions(reqs[r]) : a.expires_at <= now

\* a request was refused whose token has a stored, unexpired session of a
\* deactivated account
RefusedInactive(r, op) ==
    /\ Done(r, op) /\ ~Admitted(r)
    /\ \E a \in PresentedAdminSessions(reqs[r]) :
           a.expires_at > now /\ ~ActiveAdmin(a.admin_user_id)

\* C12: a request refused by the admin session check because its session
\* has expired gets the same status and message as one refused because the
\* session is unexpired but the account is inactive, through the middleware
\* of the admin routes and through validate_admin_session alike.
C12_SameAuthenticationFailure ==
    \A op \in {"require_admin", "get_current_admin"} :
        \A r1 \in Reqs, r2 \in Reqs :
            RefusedExpired(r1, op) /\ RefusedInactive(r2, op)
                => reqs[r1].result = reqs[r2].result

\* the failed logins of a step: an unknown username, a deactivated account,
\* a wrong password
AdminLoginRejects(r) ==
    /\ reqs[r].pc = "admin_login_find" /\ reqs'[r].pc /= "admin_login_find"
    /\ LET input == reqs[r].arg.input
           named == {u \in DOMAIN admin_users : admin_users[u].username = input.username}
       IN \/ named = {}
          \/ \E u \in named : ~admin_users[u].is_active
          \/ \E u \in named : admin_users[u].password_hash /= hash_password(input.password)

\* a reference code no submission has, or an e-mail address that is not
\* the one of the submission with that reference code
UploaderLoginRejects(r) ==
    /\ reqs[r].pc = "uploader_login_find" /\ reqs'[r].pc /= "uploader_login_find"
    /\ LET slug == to_lowercase(trim(reqs[r].arg.input.slug))
           email == to_lowercase(trim(reqs[r].arg.input.email))
           coded == {i \in DOMAIN submissions : to_lowercase(submissions[i].slug) = slug}
       IN /\ slug /= << >> /\ email /= << >>
          /\ \/ coded = {}
             \/ \E i \in coded :
                   /\ submissions[i].submitter_email /= None
                   /\ to_lowercase(Unwrap(submissions[i].submitter_email)) /= email

\* C13: admin_login answers an unknown username, a deactivated account and
\* a wrong password with one and the same 401 and message, and
\* uploader_login answers a wrong reference code and a wrong e-mail address
\* with one and the same 401 and message.
C13_UniformLoginFailure ==
    [][\A r \in Reqs :
          /\ AdminLoginRejects(r)
                => reqs'[r].result = Response("UNAUTHORIZED", "Invalid username or password")
          /\ UploaderLoginRejects(r)
                => reqs'[r].result =
                      Response("UNAUTHORIZED", "Ongeldige referentiecode of e-mailadres.")]_vars

\* with the administrator's account deactivated, an admin login and an
\* uploader login have both been refused
C13_Witness ==
    \E r1 \in Reqs, r2 \in Reqs :
        /\ \A u \in DOMAIN admin_users : ~admin_users[u].is_active
        /\ Done(r1, "admin_login")
        /\ Failed(r1, "UNAUTHORIZED", "Invalid username or password")
        /\ Done(r2, "uploader_login")
        /\ Failed(r2, "UNAUTHORIZED", "Ongeldige referentiecode of e-mailadres.")

\* ---------------------------------------------------------------------------
\* Submissions: create_submission
\* ---------------------------------------------------------------------------
MAX_SUBMISSION_ATTEMPTS == 20

\* email.split('@') has two parts, a non-empty local part and a domain of
\* more than two characters with a dot
is_valid_email(email) ==
    LET at == {i \in DOMAIN email : email[i] = "@"}
    IN /\ Cardinality(at) = 1
       /\ LET i == CHOOSE j \in at : TRUE
              domain == SubSeq(email, i + 1, Len(email))
          IN /\ i > 1
             /\ domain /= << >>
             /\ \E j \in DOMAIN domain : domain[j] = "."
             /\ Len(domain) > 2

validate_create_submission(input) ==
    IF trim(input.submitter_name) = << >> THEN "Required submitter_name"
    ELSE IF Len(input.submitter_name) > 255 THEN "TooLong submitter_name"
    ELSE IF trim(input.organization) = << >> THEN "Required organization"
    ELSE IF Len(input.organization) > 255 THEN "TooLong organization"
    ELSE IF /\ IsSome(input.submitter_email)
            /\ Unwrap(input.submitter_email) /= << >>
            /\ ~is_valid_email(Unwrap(input.submitter_email))
         THEN "InvalidEmail"
    ELSE IF /\ IsSome(input.organization_department)
            /\ Len(Unwrap(input.organization_department)) > 255
         THEN "TooLong organization_department"
    ELSE "Ok"

\* "Rate limit submission creation"
create_submission(r, headers, input) ==
    /\ CanStart(r)
    /\ LET req == Begin(r, "create_submission", None,
                        [client_ip |-> get_client_ip(headers), input |-> input], None)
       IN reqs' = [reqs EXCEPT ![r] =
            IF ~check_rate_limit_with_max(get_client_ip(headers), "create_submission",
                                          MAX_SUBMISSION_ATTEMPTS)
            THEN Respond(req, "TOO_MANY_REQUESTS",
                         "Too many submissions. Please try again later.")
            ELSE Goto(req, "create_submission_record")]
    /\ UNCHANGED <<now, submissions, next_sub_id, documents, next_doc_id, files,
                   calendar_slots, next_slot_id, uploader_sessions,
                   admin_sessions, admin_users, rate_limit_attempts, audit_log,
                   next_token, jar, fk_slot_on_delete, startup, schema, sweep>>

\* record_attempt, then "Validate input"
create_submission_record(r) ==
    /\ reqs[r].pc = "create_submission_record"
    /\ record_attempt(reqs[r].arg.client_ip, "create_submission")
    /\ LET e == validate_create_submission(reqs[r].arg.input)
       IN reqs' = [reqs EXCEPT ![r] =
            IF e /= "Ok" THEN Respond(reqs[r], "BAD_REQUEST", e)
            ELSE Goto(reqs[r], "create_submission_slug")]
    /\ UNCHANGED <<now, submissions, next_sub_id, documents, next_doc_id, files,
                   calendar_slots, next_slot_id, uploader_sessions,
                   admin_sessions, admin_users, audit_log, next_token, jar,
                   fk_slot_on_delete, startup, schema, sweep>>

\* the fallback format!("rr-{}-{}", date, &uuid[..5]) of one day
fallback_slug(uuid) == <<"r", "r", "-", "d", "-", uuid>>

\* the first five characters a Uuid::new_v4() may have: two values that may
\* repeat
UuidPrefixes == {"a", "b"}

\* what SELECT generate_submission_slug() may return: a slug no submission
\* has at that moment (two candidates, so that two calls may or may not agree)
FreshSlugs ==
    LET taken == {submissions[i].slug : i \in DOMAIN submissions}
        free == {n \in 1..9 : generate_submission_slug(n) \notin taken}
        least == CHOOSE n \in free : \A k \in free : n <= k
    IN {generate_submission_slug(n) :
           n \in {least} \cup {k \in free : \A j \in free : j < k => j = least}}

\* "Generate slug": the generator's slug, or the fallback if the call fails
create_submission_slug(r) ==
    /\ reqs[r].pc = "create_submission_slug"
    /\ \E slug \in FreshSlugs \cup {fallback_slug(u) : u \in UuidPrefixes} :
          reqs' = [reqs EXCEPT ![r] =
              [Goto(reqs[r], "create_submission_insert") EXCEPT !.slug = Some(slug)]]
    /\ UNCHANGED <<now, submissions, next_sub_id, documents, next_doc_id, files,
                   calendar_slots, next_slot_id, uploader_sessions,
                   admin_sessions, admin_users, rate_limit_attempts, audit_log,
                   next_token, jar, fk_slot_on_delete, startup, schema, sweep>>

\* the INSERT that accepts a slug another submission has
SlugTaken_never(slug) == FALSE

\* the unique constraint on submissions.slug
SlugTaken(slug) == \E i \in DOMAIN submissions : submissions[i].slug = slug

\* "Insert submission": the row gets a fresh id and the column defaults; the
\* INSERT fails on a slug that is taken
create_submission_insert(r) ==
    /\ reqs[r].pc = "create_submission_insert"
    /\ LET input == reqs[r].arg.input
           row == [id |-> next_sub_id, slug |-> Unwrap(reqs[r].slug),
                   submitter_name |-> input.submitter_name,
                   submitter_email |-> input.submitter_email,
                   organization |-> input.organization,
                   organization_department |-> input.organization_department,
                   status |-> "draft", notes |-> None, created_at |-> now,
                   submitted_at |-> None]
       IN IF SlugTaken(row.slug)
          THEN /\ reqs' = [reqs EXCEPT ![r] =
                     [Respond(reqs[r], "INTERNAL_SERVER_ERROR", "Failed to create submission")
                         EXCEPT !.slug = None]]
               /\ UNCHANGED <<submissions, next_sub_id>>
          ELSE /\ submissions' = (next_sub_id :> row) @@ submissions
               /\ next_sub_id' = next_sub_id + 1
               /\ reqs' = [reqs EXCEPT ![r] =
                     [Goto(reqs[r], "create_submission_audit") EXCEPT !.sub = Some(row.id)]]
    /\ UNCHANGED <<now, documents, next_doc_id, files, calendar_slots, next_slot_id,
                   uploader_sessions, admin_sessions, admin_users,
                   rate_limit_attempts, audit_log, next_token, jar,
                   fk_slot_on_delete, startup, schema, sweep>>

\* "Log audit event"
create_submission_audit(r) ==
    /\ reqs[r].pc = "create_submission_audit"
    /\ log_audit("submission_created", "submission", Unwrap(reqs[r].sub), "applicant")
    /\ reqs' = [reqs EXCEPT ![r] =
          [Respond(reqs[r], "CREATED", "submission") EXCEPT !.slug = None]]
    /\ UNCHANGED <<now, submissions, next_sub_id, documents, next_doc_id, files,
                   calendar_slots, next_slot_id, uploader_sessions,
                   admin_sessions, admin_users, rate_limit_attempts, next_token,
                   jar, fk_slot_on_delete, startup, schema, sweep>>

\* ---------------------------------------------------------------------------
\* Specification of the rate limits: logins and submission creation from one
\* address that has used up, or nearly used up, its attempts of the hour
\* ---------------------------------------------------------------------------
MaxRateReqs == 2

\* CreateSubmission
CreateInputs ==
    {[submitter_name |-> <<"J","a","n">>, submitter_email |-> Some(<<"j","@","x",".","n","l">>),
      organization |-> <<"G">>, organization_department |-> None],
     [submitter_name |-> <<" ">>, submitter_email |-> Some(<<"j","@","x">>),
      organization |-> <<"G">>, organization_department |-> None]}

RateLoginInputs ==
    {[username |-> "admin", password |-> "secret"],
     [username |-> "admin", password |-> "wrong"]}

RateUploaderInputs ==
    {[slug |-> <<" ","R","R","-","1">>, email |-> <<"J","@","x"," ">>],
     [slug |-> <<"r","r","-","1">>, email |-> <<"e","@","x">>]}

NextRate ==
    \/ \E r \in Reqs, headers \in HeaderInputs, input \in RateLoginInputs :
           admin_login(r, headers, input)
    \/ \E r \in Reqs : admin_login_record(r)
    \/ \E r \in Reqs : admin_login_find(r)
    \/ \E r \in Reqs : admin_login_session(r)
    \/ \E r \in Reqs : admin_login_last_login(r)
    \/ \E r \in Reqs : admin_login_audit(r)
    \/ \E r \in Reqs, headers \in HeaderInputs, input \in RateUploaderInputs :
           uploader_login(r, headers, input)
    \/ \E r \in Reqs : uploader_login_record(r)
    \/ \E r \in Reqs : uploader_login_find(r)
    \/ \E r \in Reqs : uploader_login_session(r)
    \/ \E r \in Reqs : uploader_login_audit(r)
    \/ \E r \in Reqs : uploader_login_documents(r)
    \/ \E r \in Reqs, headers \in HeaderInputs, input \in CreateInputs :
           create_submission(r, headers, input)
    \/ \E r \in Reqs : create_submission_record(r)
    \/ \E r \in Reqs : create_submission_slug(r)
    \/ \E r \in Reqs : create_submission_insert(r)
    \/ \E r \in Reqs : create_submission_audit(r)

\* the address of the earlier logins has made all, or all but one, of the
\* attempts each endpoint allows in an hour, either just now or an hour ago
InitRate ==
    /\ InitLoggedIn(MaxRateReqs)
    /\ \E left \in {0, 1}, at \in {0 - 1, 0} :
          rate_limit_attempts =
              [a \in {[ip_address |-> LoginIp, endpoint |-> e, attempted_at |-> at] :
                         e \in {"login", "uploader_login", "create_submission"}}
                  |-> IF a.endpoint = "create_submission"
                      THEN MAX_SUBMISSION_ATTEMPTS - left
                      ELSE MAX_LOGIN_ATTEMPTS - left]

SpecRate == InitRate /\ [][NextRate]_vars

\* ---------------------------------------------------------------------------
\* Properties of the rate limits
\* ---------------------------------------------------------------------------
\* the attempt rows of (ip, endpoint) of the last hour
AttemptsInWindow(ip, endpoint) ==
    LET rows == {a \in BagToSet(rate_limit_attempts) :
                    a.ip_address = ip /\ a.endpoint = endpoint}
        Count[S \in SUBSET rows] ==
            IF S = {} THEN 0
            ELSE LET a == CHOOSE x \in S : TRUE
                 IN (IF now - a.attempted_at < 1 THEN CopiesIn(a, rate_limit_attempts) ELSE 0)
                        + Count[S \ {a}]
    IN Count[rows]

RateLimitedAnswer(r) ==
    /\ reqs'[r].pc = "done"
    /\ Unwrap(reqs'[r].result).status = "TOO_MANY_REQUESTS"

\* C14: a login or a submission creation is let past the rate limit exactly
\* when its address has made fewer than the endpoint's maximum of attempts
\* (10 for the logins, 20 for submission creation) in the last hour, whatever
\* the credentials or the body of the request
C14_AllowedIffUnderMax ==
    [][\A r \in Reqs, headers \in HeaderInputs :
         /\ \A input \in RateLoginInputs :
               admin_login(r, headers, input) =>
                  (~RateLimitedAnswer(r) <=>
                      AttemptsInWindow(get_client_ip(headers), "login") < 10)
         /\ \A input \in RateUploaderInputs :
               uploader_login(r, headers, input) =>
                  (~RateLimitedAnswer(r) <=>
                      AttemptsInWindow(get_client_ip(headers), "uploader_login") < 10)
         /\ \A input \in CreateInputs :
               create_submission(r, headers, input) =>
                  (~RateLimitedAnswer(r) <=>
                      AttemptsInWindow(get_client_ip(headers), "create_submission") < 20)
      ]_vars

\* the tenth attempt of the hour has passed the limit and been recorded, and
\* the eleventh has been refused
C14_Witness ==
    \E r1, r2 \in Reqs :
        /\ reqs[r1].op = "admin_login" /\ reqs[r1].pc = "done"
        /\ Unwrap(reqs[r1].result).status = "UNAUTHORIZED"
        /\ reqs[r2].op = "admin_login" /\ reqs[r2].pc = "done"
        /\ Unwrap(reqs[r2].result).status = "TOO_MANY_REQUESTS"
        /\ AttemptsInWindow(LoginIp, "login") = 10

\* the address every connection of the run comes from: a client, not one of
\* the configured trusted proxies
PeerAddr == "203.0.113.9"

\* C15: the address a rate-limited handler keys its attempts on is the peer
\* address of the connection when the peer is not a trusted proxy, whatever
\* X-Forwarded-For and X-Real-IP headers the client sends
C15_UntrustedPeerKeepsItsKey ==
    \A r \in Reqs :
        (/\ reqs[r].op \in {"admin_login", "uploader_login", "create_submission"}
         /\ reqs[r].pc \in {"admin_login_record", "uploader_login_record",
                            "create_submission_record"})
            => reqs[r].arg.client_ip = PeerAddr

\* ---------------------------------------------------------------------------
\* Specification of slot deletion racing with booking
\* ---------------------------------------------------------------------------
NextSlots ==
    \/ \E r \in Reqs, slug \in SlugInputs, k \in 1..MaxSlots : book_slot(r, slug, k)
    \/ \E r \in Reqs : book_slot_check_existing(r)
    \/ \E r \in Reqs : book_slot_update(r)
    \/ \E r \in Reqs : book_slot_audit(r)
    \/ \E r \in Reqs, k \in 1..MaxSlots : delete_slot(r, k)
    \/ \E r \in Reqs : delete_slot_delete(r)

\* every slot is free and in the future
InitSlotAdmin ==
    /\ InitRest(MaxAdminReqs)
    /\ fk_slot_on_delete = "no_action"
    /\ Serving
    /\ InitSubmissions(0)
    /\ InitSlots(MaxSlots)

SpecSlots == InitSlotAdmin /\ [][NextSlots]_vars

\* C16: the DELETE of delete_slot never removes a slot that is booked at
\* that moment, however delete_slot and book_slot interleave
C16_BookedSlotNeverDeleted ==
    [][\A r \in Reqs :
          (delete_slot_delete(r) /\ reqs[r].arg \in DOMAIN calendar_slots)
              => ~IsSome(calendar_slots[reqs[r].arg].booked_by_submission)]_vars

\* ---------------------------------------------------------------------------
\* Specification of deletion by an admin: a submission with a stored document
\* and logged-in uploaders is deleted while its uploaders use their sessions
\* ---------------------------------------------------------------------------
MaxDelReqs == 2

\* as InitLoggedIn, after the uploader of submission 1 has uploaded a file
InitDelete ==
    /\ now = 0
    /\ submissions = [i \in 1..MaxSubs |->
          [SubmissionRow(i, IF i = 1 THEN "submitted" ELSE "draft",
                         IF i = 1 THEN Some(LoginTime) ELSE None)
              EXCEPT !.created_at = LoginTime]]
    /\ next_sub_id = MaxSubs + 1
    /\ LET safe_filename == sanitize_filename(Unwrap(PdfFile.file_name))
           storage_filename == StorageFilename(1, safe_filename)
           file_path == FilePath(generate_submission_slug(1), storage_filename)
       IN /\ documents = (1 :>
                [id |-> 1, submission_id |-> 1, category |-> "circular",
                 classification |-> "public",
                 external_url |-> None, external_title |-> None,
                 filename |-> Some(storage_filename),
                 original_filename |-> PdfFile.file_name,
                 file_path |-> Some(file_path),
                 file_size |-> Some(PdfFile.size),
                 mime_type |-> PdfFile.content_type,
                 description |-> None, created_at |-> LoginTime])
          /\ files = {file_path}
    /\ next_doc_id = 2
    /\ InitSlots(0)
    /\ uploader_sessions =
           {UploaderSessionRow(1, <<"j","@","x">>, hash_token(generate_session_token(1)),
                               LoginTime, LoginIp),
            UploaderSessionRow(MaxSubs, <<"j","@","x">>,
                               hash_token(generate_session_token(2)), LoginTime, LoginIp)}
    /\ admin_sessions =
           {AdminSessionRow(1, hash_token(generate_session_token(3)), LoginTime, LoginIp)}
    /\ jar = {SetCookie(UPLOADER_SESSION_COOKIE, generate_session_token(1), UPLOADER_SESSION_HOURS * 3600),
              SetCookie(UPLOADER_SESSION_COOKIE, generate_session_token(2), UPLOADER_SESSION_HOURS * 3600),
              SetCookie(SESSION_COOKIE, generate_session_token(3), ADMIN_SESSION_HOURS * 3600)}
    /\ next_token = 4
    /\ admin_users = (1 :> [AdminRow(1, TRUE) EXCEPT !.last_login_at = Some(LoginTime)])
    /\ rate_limit_attempts = EmptyBag
    /\ audit_log = SetToBag({AuditEntry("uploader_login", "submission", 1, "uploader"),
                             AuditEntry("uploader_login", "submission", MaxSubs, "uploader"),
                             AuditEntry("admin_login", "admin_user", 1, "admin"),
                             AuditEntry("document_uploaded", "document", 1, "uploader")})
    /\ fk_slot_on_delete \in {"set_null", "no_action", "cascade"}
    /\ Serving
    /\ reqs = [r \in 1..MaxDelReqs |-> IdleReq]
    /\ sweep = SweepIdle

NextDelete ==
    \/ \E r \in Reqs, id \in {1, MaxSubs, 0} : delete_submission(r, id)
    \/ \E r \in Reqs : delete_submission_files(r)
    \/ \E r \in Reqs : delete_submission_row(r)
    \/ \E r \in Reqs : delete_submission_audit(r)
    \/ \E r \in Reqs, cookies \in UploaderCookieInputs : get_current_uploader(r, cookies)
    \/ \E r \in Reqs : get_current_uploader_submission(r)
    \/ \E r \in Reqs, input \in RateUploaderInputs :
           uploader_login(r, [x_forwarded_for |-> None, x_real_ip |-> None], input)
    \/ \E r \in Reqs : uploader_login_record(r)
    \/ \E r \in Reqs : uploader_login_find(r)
    \/ \E r \in Reqs : uploader_login_session(r)
    \/ \E r \in Reqs : uploader_login_audit(r)
    \/ \E r \in Reqs : uploader_login_documents(r)

SpecDelete == InitDelete /\ [][NextDelete]_vars

\* ---------------------------------------------------------------------------
\* Properties of deletion by an admin
\* ---------------------------------------------------------------------------
\* the submission the DELETE of request r has removed
Deleted(r) ==
    /\ reqs[r].op = "delete_submission"
    /\ \/ reqs[r].pc = "delete_submission_audit"
       \/ reqs[r].pc = "done" /\ Unwrap(reqs[r].result).status = "OK"

\* the DELETE of request r is still to come or has gone through
DeleteGoesThrough(r) ==
    reqs[r].op = "delete_submission" /\ reqs[r].pc = "done"
        => Unwrap(reqs[r].result).status \in {"OK", "NOT_FOUND"}

MaxSweepReqs == 2

\* submission 1 is a draft or has been submitted, the others are drafts; each
\* was created just now or an hour ago
InitSweep ==
    /\ InitRest(MaxSweepReqs)
    /\ fk_slot_on_delete = "no_action"
    /\ Serving
    /\ InitSlots(0)
    /\ \E status \in {"draft", "submitted"}, created_at \in [1..MaxSubs -> {0 - 1, 0}] :
           submissions = [i \in 1..MaxSubs |->
               [SubmissionRow(i, IF i = 1 THEN status ELSE "draft",
                              IF i = 1 /\ status = "submitted"
                              THEN Some(created_at[i]) ELSE None)
                   EXCEPT !.created_at = created_at[i]]]
    /\ next_sub_id = MaxSubs + 1

NextSweep ==
    \/ cleanup_abandoned_drafts
    \/ cleanup_abandoned_drafts_files
    \/ \E r \in Reqs, slug \in LifeSlugs : submit_submission(r, slug)
    \/ \E r \in Reqs : submit_submission_audit(r)
    \/ Tick

SpecSweep == InitSweep /\ [][NextSweep]_vars

\* ---------------------------------------------------------------------------
\* Properties of the abandoned-draft sweep
\* ---------------------------------------------------------------------------
\* the rows that are drafts created more than one hour ago
DraftsOlderThanAnHour ==
    {i \in DOMAIN submissions :
        submissions[i].status = "draft" /\ now - submissions[i].created_at > 1}

SubmitSucceeded(r) ==
    /\ reqs[r].op = "submit_submission"
    /\ \/ reqs[r].pc = "submit_audit"
       \/ reqs[r].pc = "done" /\ Unwrap(reqs[r].result).status = "OK"

\* C18: a sweep deletes exactly the drafts created more than one hour ago,
\* and a draft is never both submitted and swept: a submit_submission that
\* succeeded leaves a submitted row that stays, and a swept draft is not found
C18_SweepExactAndAtomic ==
    [][/\ DOMAIN submissions' /= DOMAIN submissions =>
             DOMAIN submissions \ DOMAIN submissions' = DraftsOlderThanAnHour
       /\ \A r \in Reqs :
             SubmitSucceeded(r)' =>
                \E i \in DOMAIN submissions' :
                    /\ submissions'[i].slug = reqs'[r].slug
                    /\ submissions'[i].status = "submitted"]_vars

\* an old draft has been submitted in time and has outlived a sweep that
\* deleted the other old draft, whose submit_submission found nothing
C18_Witness ==
    \E r1, r2 \in Reqs :
        /\ SubmitSucceeded(r1) /\ reqs[r1].slug = generate_submission_slug(1)
        /\ 1 \in DOMAIN submissions /\ submissions[1].created_at < 0
        /\ submissions[1].submitted_at = Some(1)
        /\ MaxSubs \notin DOMAIN submissions
        /\ Done(r2, "submit_submission") /\ reqs[r2].slug = generate_submission_slug(MaxSubs)
        /\ Unwrap(reqs[r2].result).status = "NOT_FOUND"

\* the entries a step appends to the audit log
Appended ==
    {e \in BagToSet(audit_log') : CopiesIn(e, audit_log') > CopiesIn(e, audit_log)}

\* C20: the audit entry of a successful update_submission_status records the
\* status the submission had before the change as well as the new status
C20_StatusAuditHasOldAndNew ==
    [][\A r \in Reqs :
          update_submission_status_audit(r) =>
              \E e \in Appended :
                  /\ e.action = "submission_status_changed"
                  /\ e.entity_id = reqs[r].arg.id
                  /\ e.details.new_status = reqs[r].arg.status
                  /\ "old_status" \in DOMAIN e.details]_vars

\* ---------------------------------------------------------------------------
\* The periodic cleanup task of main
\* ---------------------------------------------------------------------------
\* the sweep that empties the table
cleanup_rate_limit_entries_all ==
    /\ sweep.pc = "idle"
    /\ rate_limit_attempts' = EmptyBag
    /\ sweep' = [sweep EXCEPT !.pc = "admin_sessions"]
    /\ UNCHANGED <<now, submissions, next_sub_id, documents, next_doc_id, files,
                   calendar_slots, next_slot_id, uploader_sessions, admin_sessions,
                   admin_users, audit_log, next_token, jar, fk_slot_on_delete, startup, schema, reqs>>

\* "Clean up expired rate limit entries": DELETE FROM rate_limit_attempts
\* WHERE attempted_at < NOW() - INTERVAL '1 hour'
cleanup_rate_limit_entries ==
    /\ sweep.pc = "idle"
    /\ LET kept == {a \in BagToSet(rate_limit_attempts) : ~(a.attempted_at < now - 1)}
       IN rate_limit_attempts' = [a \in kept |-> rate_limit_attempts[a]]
    /\ sweep' = [sweep EXCEPT !.pc = "admin_sessions"]
    /\ UNCHANGED <<now, submissions, next_sub_id, documents, next_doc_id, files,
                   calendar_slots, next_slot_id, uploader_sessions, admin_sessions,
                   admin_users, audit_log, next_token, jar, fk_slot_on_delete, startup, schema, reqs>>

\* "Clean up expired admin sessions": DELETE FROM admin_sessions WHERE
\* expires_at < NOW(); the loop then waits for the next tick of the interval
cleanup_expired_admin_sessions ==
    /\ sweep.pc = "admin_sessions"
    /\ admin_sessions' = {s \in admin_sessions : ~(s.expires_at < now)}
    /\ sweep' = SweepIdle
    /\ UNCHANGED <<now, submissions, next_sub_id, documents, next_doc_id, files,
                   calendar_slots, next_slot_id, uploader_sessions, admin_users,
                   rate_limit_attempts, audit_log, next_token, jar,
                   fk_slot_on_delete, startup, schema, reqs>>

\* ---------------------------------------------------------------------------
\* Specification of the periodic cleanup: the task runs for ever while time
\* passes and admins log in
\* ---------------------------------------------------------------------------
MaxCleanReqs == 1

\* an admin session and an uploader session that expire now, login attempts
\* of an hour ago, a draft created an hour ago
InitCleanup ==
    /\ now = 0
    /\ submissions = [i \in 1..MaxSubs |->
          [SubmissionRow(i, IF i = 1 THEN "submitted" ELSE "draft",
                         IF i = 1 THEN Some(0 - 1) ELSE None)
              EXCEPT !.created_at = 0 - 1]]
    /\ next_sub_id = MaxSubs + 1
    /\ documents = << >>
    /\ next_doc_id = 1
    /\ files = {}
    /\ InitSlots(0)
    /\ uploader_sessions =
           {UploaderSessionRow(1, <<"j","@","x">>, hash_token(generate_session_token(1)),
                               0 - UPLOADER_SESSION_HOURS, LoginIp)}
    /\ admin_sessions =
           {AdminSessionRow(1, hash_token(generate_session_token(2)),
                            0 - ADMIN_SESSION_HOURS, LoginIp)}
    /\ jar = {SetCookie(UPLOADER_SESSION_COOKIE, generate_session_token(1), UPLOADER_SESSION_HOURS * 3600),
              SetCookie(SESSION_COOKIE, generate_session_token(2), ADMIN_SESSION_HOURS * 3600)}
    /\ next_token = 3
    /\ admin_users = (1 :> [AdminRow(1, TRUE) EXCEPT !.last_login_at = Some(0 - ADMIN_SESSION_HOURS)])
    /\ \E n \in {1, 2} :
          rate_limit_attempts =
              [a \in {[ip_address |-> "unknown", endpoint |-> e, attempted_at |-> 0 - 1] :
                         e \in {"login", "uploader_login"}} |-> n]
    /\ audit_log = SetToBag({AuditEntry("uploader_login", "submission", 1, "uploader"),
                             AuditEntry("admin_login", "admin_user", 1, "admin")})
    /\ fk_slot_on_delete = "no_action"
    /\ Serving
    /\ reqs = [r \in 1..MaxCleanReqs |-> IdleReq]
    /\ sweep = SweepIdle

NextCleanup ==
    \/ cleanup_rate_limit_entries
    \/ cleanup_expired_admin_sessions
    \/ Tick
    \/ \E r \in Reqs, input \in RateLoginInputs :
           admin_login(r, [x_forwarded_for |-> None, x_real_ip |-> None], input)
    \/ \E r \in Reqs : admin_login_record(r)
    \/ \E r \in Reqs : admin_login_find(r)
    \/ \E r \in Reqs : admin_login_session(r)
    \/ \E r \in Reqs : admin_login_last_login(r)
    \/ \E r \in Reqs : admin_login_audit(r)

\* the task's loop never stops, and time passes
SpecCleanup ==
    /\ InitCleanup
    /\ [][NextCleanup]_vars
    /\ WF_vars(cleanup_rate_limit_entries)
    /\ WF_vars(cleanup_expired_admin_sessions)
    /\ WF_vars(Tick)

\* ---------------------------------------------------------------------------
\* Properties of the periodic cleanup
\* ---------------------------------------------------------------------------
StaleRateLimitRows ==
    {a \in BagToSet(rate_limit_attempts) : a.attempted_at < now - 1}
ExpiredAdminSessions == {s \in admin_sessions : s.expires_at < now}
ExpiredUploaderSessions == {s \in uploader_sessions : s.expires_at < now}

\* C19: while the process runs, stale state of every kind is eventually
\* deleted: rate-limit rows older than the window, expired admin sessions,
\* expired uploader sessions, and drafts older than one hour
C19_StaleStateEventuallyDeleted ==
    /\ (StaleRateLimitRows /= {}) ~> (StaleRateLimitRows = {})
    /\ (ExpiredAdminSessions /= {}) ~> (ExpiredAdminSessions = {})
    /\ (ExpiredUploaderSessions /= {}) ~> (ExpiredUploaderSessions = {})
    /\ (AbandonedDrafts /= {}) ~> (AbandonedDrafts = {})

\* ---------------------------------------------------------------------------
\* Specification of startup: the process is started, and started again after
\* it has exited or been stopped, on a fresh or on a legacy database
\* ---------------------------------------------------------------------------
MaxStartups == 2

\* main: create_pool(&config.database_url).await?
main ==
    /\ startup.pc \in {"stopped", "exited", "serving"}
    /\ startup.starts < MaxStartups
    /\ startup' = [NotStarted EXCEPT !.pc = "connect", !.starts = startup.starts + 1,
                                     !.failed = startup.failed]
    /\ UNCHANGED schema
    /\ StartupFrame

\* an empty database, or one whose schema was created before migrations
\* were tracked
InitStartup ==
    /\ now = 0
    /\ submissions = << >> /\ next_sub_id = 1
    /\ documents = << >> /\ next_doc_id = 1
    /\ files = {}
    /\ calendar_slots = << >> /\ next_slot_id = 1
    /\ uploader_sessions = {} /\ admin_sessions = {} /\ admin_users = << >>
    /\ rate_limit_attempts = EmptyBag /\ audit_log = EmptyBag
    /\ next_token = 1 /\ jar = {}
    /\ reqs = << >>
    /\ sweep = SweepIdle
    /\ startup = NotStarted
    /\ \E legacy \in BOOLEAN :
          /\ schema = IF legacy
                      THEN [EmptySchema EXCEPT !.applied =
                               {MigrationStatements["001_initial"][i] :
                                   i \in DOMAIN MigrationStatements["001_initial"]}]
                      ELSE EmptySchema
          /\ fk_slot_on_delete = "no_action"

NextStartup ==
    \/ main
    \/ create_pool_connect
    \/ create_pool_sleep
    \/ run_migrations
    \/ run_migrations_legacy
    \/ run_migrations_check
    \/ run_migrations_execute
    \/ run_migrations_record

\* a started process keeps running until it serves or exits
SpecStartup ==
    /\ InitStartup
    /\ [][NextStartup]_vars
    /\ WF_vars(create_pool_connect)
    /\ WF_vars(create_pool_sleep)
    /\ WF_vars(run_migrations \/ run_migrations_legacy \/ run_migrations_check
                  \/ run_migrations_execute \/ run_migrations_record)

\* ---------------------------------------------------------------------------
\* Properties of startup
\* ---------------------------------------------------------------------------
InCreatePool == startup.pc \in {"connect", "sleep"}
CreatePoolFailed == startup.pc = "exited" /\ startup.migration = 0
CreatePoolReturnedPool ==
    startup.pc \in {"run_migrations", "legacy", "check", "execute", "record", "serving"}
        \/ (startup.pc = "exited" /\ startup.migration > 0)

\* C25: create_pool terminates; it connects at most 5 times, returns the pool
\* at the first success, sleeps 2*k seconds after the k-th failure for k < 5
\* and returns the error after the 5th failure without sleeping again
C25_CreatePoolTerminates ==
    /\ [](startup.attempts <= 5)
    /\ [](\A k \in DOMAIN startup.slept : startup.slept[k] = 2 * k)
    /\ [](startup.pc = "connect" => Len(startup.slept) = startup.attempts)
    /\ [](CreatePoolReturnedPool => Len(startup.slept) = startup.attempts - 1)
    /\ [](CreatePoolFailed => startup.attempts = 5 /\ Len(startup.slept) = 4)
    /\ InCreatePool ~> ~InCreatePool

\* the fifth attempt has failed after sleeps of 2, 4, 6 and 8 seconds
C25_Witness ==
    CreatePoolFailed /\ startup.slept = <<2, 4, 6, 8>>

StatementsOf(name) ==
    {MigrationStatements[name][i] : i \in DOMAIN MigrationStatements[name]}

\* C26: over successful runs every statement of a migration is executed at
\* most once; a migration is recorded in _migrations only when all of its
\* statements have succeeded; and on a database whose schema exists without
\* being tracked the initial migration is recorded without being executed
C26_MigrationsIdempotent ==
    /\ ~startup.failed => \A st \in AllStatements : schema.executed[st] <= 1
    /\ schema.tracking /= None =>
          \A name \in Unwrap(schema.tracking) : StatementsOf(name) \subseteq schema.applied
    /\ (/\ "CREATE TABLE submissions" \in schema.applied
        /\ schema.executed["CREATE TABLE submissions"] = 0
        /\ startup.pc \in {"check", "execute", "record", "serving"})
          => /\ "001_initial" \in Unwrap(schema.tracking)
             /\ \A st \in StatementsOf("001_initial") : schema.executed[st] = 0

\* ---------------------------------------------------------------------------
\* Specification of the audit log: handlers that write it run next to the
\* operations that delete rows
\* ---------------------------------------------------------------------------
NextAudit ==
    \/ \E r \in Reqs, id \in LifeIds : delete_submission(r, id)
    \/ \E r \in Reqs : delete_submission_files(r)
    \/ \E r \in Reqs : delete_submission_row(r)
    \/ \E r \in Reqs : delete_submission_audit(r)
    \/ \E r \in Reqs, slug \in LifeSlugs : submit_submission(r, slug)
    \/ \E r \in Reqs : submit_submission_audit(r)
    \/ \E r \in Reqs, id \in LifeIds, input \in StatusInputs :
           update_submission_status(r, id, input)
    \/ \E r \in Reqs : update_submission_status_audit(r)
    \/ cleanup_abandoned_drafts
    \/ cleanup_abandoned_drafts_files
    \/ cleanup_rate_limit_entries
    \/ cleanup_expired_admin_sessions
    \/ Tick

SpecAudit == InitCleanup /\ [][NextAudit]_vars

\* C21: no step of the application removes or changes an entry of the audit
\* log: every entry of the log is still in it, as often, after the step
C21_AuditLogAppendOnly ==
    [][\A e \in BagToSet(audit_log) :
          CopiesIn(e, audit_log') >= CopiesIn(e, audit_log)]_vars

\* submission 1 has been deleted by an admin, the deletion has been logged,
\* and the entry of its uploader's login is still in the log
C21_Witness ==
    /\ 1 \notin DOMAIN submissions
    /\ CopiesIn(AuditEntry("data_deleted", "submission", 1, "admin"), audit_log) = 1
    /\ CopiesIn(AuditEntry("uploader_login", "submission", 1, "uploader"), audit_log) = 1

\* ---------------------------------------------------------------------------
\* Specification of the slugs: submissions are created while the first
\* submission is updated, submitted, given a status and forwarded
\* ---------------------------------------------------------------------------
MaxSlugReqs == 2

NextSlug ==
    \/ \E r \in Reqs, input \in CreateInputs :
           create_submission(r, [x_forwarded_for |-> None, x_real_ip |-> None], input)
    \/ \E r \in Reqs : create_submission_record(r)
    \/ \E r \in Reqs : create_submission_slug(r)
    \/ \E r \in Reqs : create_submission_insert(r)
    \/ \E r \in Reqs : create_submission_audit(r)
    \/ \E r \in Reqs, input \in UpdateInputs :
           input.submitter_name /= None
               /\ update_submission(r, generate_submission_slug(1), input)
    \/ \E r \in Reqs : update_submission_write(r)
    \/ \E r \in Reqs : update_submission_audit(r)
    \/ \E r \in Reqs : submit_submission(r, generate_submission_slug(1))
    \/ \E r \in Reqs : submit_submission_audit(r)
    \/ \E r \in Reqs :
           update_submission_status(r, 1, [status |-> "under_review", notes |-> None])
    \/ \E r \in Reqs : update_submission_status_audit(r)
    \/ \E r \in Reqs, input \in ForwardInputs :
           input.notes = None /\ forward_submission(r, 1, input)
    \/ \E r \in Reqs : forward_submission_audit(r)

\* drafts only, none older than an hour
InitSlug ==
    /\ InitRest(MaxSlugReqs)
    /\ fk_slot_on_delete = "no_action"
    /\ Serving
    /\ InitSlots(0)
    /\ InitSubmissions(0)

SpecSlug == InitSlug /\ [][NextSlug]_vars

\* ---------------------------------------------------------------------------
\* Properties of the slugs
\* ---------------------------------------------------------------------------
SlugsUnique ==
    \A i, j \in DOMAIN submissions :
        submissions[i].slug = submissions[j].slug => i = j

C27_SubmittedIsFrozenForApplicant ==
    [][\A r \in Reqs :
          update_submission_write(r) =>
              \A i \in DOMAIN submissions :
                  submissions[i].status /= "draft" => submissions'[i] = submissions[i]]_vars

\* ---------------------------------------------------------------------------
\* validate_slug as a function of its argument
\* ---------------------------------------------------------------------------
MaxSlugLen == 3

\* a lowercase letter, a digit, the hyphen, an uppercase letter and a
\* character of no class
SlugAlphabet == {"a", "0", "-", "A", "_"}

StringsUpTo(alphabet, n) == UNION {[1..k -> alphabet] : k \in 0..n}

\* strings around the length limit, ending in each kind of character
LongSlugs ==
    {[i \in 1..n |-> IF i < n THEN "a" ELSE c] : n \in 49..51, c \in SlugAlphabet}

SlugStrings == StringsUpTo(SlugAlphabet, MaxSlugLen) \cup LongSlugs

\* a request whose path carries the slug has arrived
InitTables ==
    /\ now = 0
    /\ documents = << >>
    /\ next_doc_id = 1
    /\ files = {}
    /\ uploader_sessions = {}
    /\ admin_sessions = {}
    /\ admin_users = (1 :> AdminRow(1, TRUE))
    /\ rate_limit_attempts = EmptyBag
    /\ audit_log = EmptyBag
    /\ next_token = 1
    /\ jar = {}
    /\ sweep = SweepIdle
    /\ fk_slot_on_delete = "no_action"
    /\ Serving
    /\ InitSlots(0)
    /\ InitSubmissions(0)

InitValidateSlug ==
    /\ InitTables
    /\ \E slug \in SlugStrings :
           reqs = [r \in 1..1 |-> [IdleReq EXCEPT !.slug = Some(slug)]]

\* the first statement of every handler with a slug in its path
validate_slug_call(r) ==
    /\ reqs[r].pc = "idle"
    /\ reqs[r].slug /= None
    /\ reqs' = [reqs EXCEPT ![r] =
                   [@ EXCEPT !.op = "validate_slug", !.pc = "done",
                             !.result = Some(validate_slug(Unwrap(reqs[r].slug)))]]
    /\ UNCHANGED <<now, submissions, next_sub_id, documents, next_doc_id, files,
                   calendar_slots, next_slot_id, uploader_sessions,
                   admin_sessions, admin_users, rate_limit_attempts, audit_log,
                   next_token, jar, fk_slot_on_delete, startup, schema, sweep>>

NextValidateSlug == \E r \in Reqs : validate_slug_call(r)

SpecValidateSlug == InitValidateSlug /\ [][NextValidateSlug]_vars

\* ^[a-z0-9]([a-z0-9-]*[a-z0-9])?$
MatchesSlugPattern(str) ==
    LET AlNum == AsciiLower \cup AsciiDigit
    IN /\ Len(str) >= 1
       /\ str[1] \in AlNum
       /\ \/ Len(str) = 1
          \/ /\ str[Len(str)] \in AlNum
             /\ \A i \in 2..(Len(str) - 1) : str[i] \in AlNum \cup {"-"}

\* C23: validate_slug succeeds exactly on the strings of 1 to 50 characters
\* that match ^[a-z0-9]([a-z0-9-]*[a-z0-9])?$, and fails on every other
\* string: the empty one, a longer one, one with an uppercase letter or
\* another character, one that starts or ends with a hyphen.
C23_ValidateSlugExact ==
    \A r \in Reqs :
        reqs[r].op = "validate_slug" /\ reqs[r].pc = "done" =>
            LET slug == Unwrap(reqs[r].slug)
            IN (reqs[r].result = Some("Ok"))
                   <=> (Len(slug) \in 1..50 /\ MatchesSlugPattern(slug))

C23_Witness ==
    \E r \in Reqs :
        /\ reqs[r].op = "validate_slug"
        /\ reqs[r].pc = "done"
        /\ Len(Unwrap(reqs[r].slug)) = 50
        /\ Unwrap(reqs[r].slug)[50] = "0"
        /\ reqs[r].result = Some("Ok")

\* ---------------------------------------------------------------------------
\* validate_filename_extensions as a function of its argument, and in
\* upload_document
\* ---------------------------------------------------------------------------
MaxNameLen == 4

NameAlphabet == {".", "s", "h", "S", "H"}

NamedFiles ==
    {<<"a",".","p","d","f">>, <<"a",".","p","h","p">>, <<"a",".","P","h","P">>,
     <<"a",".","p","h","p",".","p","d","f">>, <<"a",".","E","X","E",".","j","p","g">>,
     <<"a",".","p","h","p","x">>, <<"a","j","s">>, <<"a",".","j","s","x",".">>,
     <<".","h","t","a","c","c","e","s","s">>, <<"a",".","c","l","a","s","s","y">>,
     <<"a",".","p","h","p","5">>, <<"p","h","p">>, <<"p","h","p",".">>}

FilenameStrings == StringsUpTo(NameAlphabet, MaxNameLen) \cup NamedFiles

\* declared Content-Type of the part: allowed, not allowed, absent
MimeInputs == {Some("application/pdf"), Some("text/html"), None}

\* the chosen names also come in the largest size allowed and one byte more
GateFields ==
    {Some([file_name |-> Some(name), content_type |-> mime, size |-> size]) :
        name \in NamedFiles, mime \in MimeInputs,
        size \in {1, max_upload_size, max_upload_size + 1}}

UploadFields ==
    {Some([file_name |-> Some(name), content_type |-> mime, size |-> 1]) :
        name \in FilenameStrings, mime \in MimeInputs} \cup GateFields

\* a request has arrived; arg holds the filename the check is given
InitUpload ==
    /\ InitTables
    /\ \E filename \in FilenameStrings :
           reqs = [r \in 1..1 |-> [IdleReq EXCEPT !.arg = Some(filename)]]

\* "Validate filename doesn't contain dangerous extensions"
validate_filename_extensions_call(r) ==
    /\ reqs[r].pc = "idle"
    /\ reqs[r].arg /= None
    /\ reqs' = [reqs EXCEPT ![r] =
                   [@ EXCEPT !.op = "validate_filename_extensions", !.pc = "done",
                             !.result = Some(validate_filename_extensions(
                                                 Unwrap(reqs[r].arg)))]]
    /\ UNCHANGED <<now, submissions, next_sub_id, documents, next_doc_id, files,
                   calendar_slots, next_slot_id, uploader_sessions,
                   admin_sessions, admin_users, rate_limit_attempts, audit_log,
                   next_token, jar, fk_slot_on_delete, startup, schema, sweep>>

\* the check on its own, and uploads to a draft with every filename under
\* every declared type
NextUpload ==
    \/ \E r \in Reqs : validate_filename_extensions_call(r)
    \/ \E r \in Reqs :
           upload_document(r, generate_submission_slug(1),
                           [category |-> "circular", classification |-> "public",
                            description |-> None])
    \/ \E r \in Reqs, field \in UploadFields : upload_document_read(r, field)
    \/ \E r \in Reqs : upload_document_store(r)
    \/ \E r \in Reqs : upload_document_insert(r)
    \/ \E r \in Reqs : upload_document_audit(r)

SpecUpload == InitUpload /\ [][NextUpload]_vars

\* the same letter, in either case
SameLetter(c, d) ==
    LET letters == <<"a","b","c","d","e","f","g","h","i","j","k","l","m",
                     "n","o","p","q","r","s","t","u","v","w","x","y","z">>
        capitals == <<"A","B","C","D","E","F","G","H","I","J","K","L","M",
                      "N","O","P","Q","R","S","T","U","V","W","X","Y","Z">>
    IN \/ c = d
       \/ \E k \in 1..26 : {c, d} = {letters[k], capitals[k]}

\* a blocklisted extension, in whatever case, sits at the end of the name or
\* right before a dot
HasDangerousExtension(name) ==
    \E k \in DOMAIN DANGEROUS_EXTENSIONS :
        LET ext == DANGEROUS_EXTENSIONS[k]
        IN \E i \in 1..Len(name) :
              /\ i + Len(ext) - 1 <= Len(name)
              /\ \A j \in 1..Len(ext) : SameLetter(name[i + j - 1], ext[j])
              /\ \/ i + Len(ext) - 1 = Len(name)
                 \/ name[i + Len(ext)] = "."

RejectsExactlyDangerousNames ==
    \A r \in Reqs :
        reqs[r].op = "validate_filename_extensions" /\ reqs[r].pc = "done" =>
            (reqs[r].result /= Some("Ok")) <=> HasDangerousExtension(Unwrap(reqs[r].arg))

NoDangerousNameStored ==
    /\ \A id \in DOMAIN documents :
           documents[id].original_filename /= None =>
               ~HasDangerousExtension(Unwrap(documents[id].original_filename))
    /\ \A r \in Reqs :
           reqs[r].op = "upload_document" /\ reqs[r].doc /= None =>
               ~HasDangerousExtension(Unwrap(reqs[r].doc).original_filename)

\* C24: validate_filename_extensions rejects, without regard to case, a
\* filename that ends with a blocklisted extension or contains one followed
\* by a dot, and accepts every other filename; an upload with such a
\* filename never gets past the checks of upload_document and is never
\* stored, whatever MIME type the part declares.
C24_DangerousExtensionsRejected ==
    /\ RejectsExactlyDangerousNames
    /\ NoDangerousNameStored

C24_Witness ==
    \E r \in Reqs :
        /\ reqs[r].op = "validate_filename_extensions"
        /\ reqs[r].pc = "done"
        /\ reqs[r].arg = Some(<<"a",".","E","X","E",".","j","p","g">>)
        /\ reqs[r].result = Some("InvalidFileType")

\* ---------------------------------------------------------------------------
\* cancel_booking, and booking again
\* ---------------------------------------------------------------------------
MaxCancelReqs == 2

\* submission 1 holds none, one or several of the slots: book_slot has run
\* for each of them before any of them started (two requests of one
\* submission can both get past the check for an existing booking); since
\* then some slots may have started
InitCancel ==
    /\ now \in 0..MaxTime
    /\ documents = << >>
    /\ next_doc_id = 1
    /\ files = {}
    /\ uploader_sessions = {}
    /\ admin_sessions = {}
    /\ admin_users = (1 :> AdminRow(1, TRUE))
    /\ rate_limit_attempts = EmptyBag
    /\ next_token = 1
    /\ jar = {}
    /\ reqs = [r \in 1..MaxCancelReqs |-> IdleReq]
    /\ sweep = SweepIdle
    /\ fk_slot_on_delete = "no_action"
    /\ Serving
    /\ InitSubmissions(0)
    /\ next_slot_id = MaxSlots + 1
    /\ \E start \in [1..MaxSlots -> {1, MaxTime + 1}], held \in {{}, {1}, 1..MaxSlots} :
          /\ \A j, k \in 1..MaxSlots : j <= k => start[j] <= start[k]
          /\ calendar_slots = [k \in 1..MaxSlots |->
                [NewSlot(k, [slot_start |-> start[k], slot_end |-> start[k] + 1])
                    EXCEPT !.is_available = k \notin held,
                           !.booked_by_submission = IF k \in held THEN Some(1) ELSE None]]
          /\ audit_log = SetToBag({AuditEntry("slot_booked", "calendar_slot", k, "applicant") :
                                      k \in held})

NextCancel ==
    \/ \E r \in Reqs, i \in {1, MaxSubs} : cancel_booking(r, generate_submission_slug(i))
    \/ \E r \in Reqs : cancel_booking_update(r)
    \/ \E r \in Reqs : cancel_booking_audit(r)
    \/ \E r \in Reqs, i \in {1, MaxSubs}, k \in {1, MaxSlots, MaxSlots + 1} :
           book_slot(r, generate_submission_slug(i), k)
    \/ \E r \in Reqs : book_slot_check_existing(r)
    \/ \E r \in Reqs : book_slot_update(r)
    \/ \E r \in Reqs : book_slot_audit(r)

SpecCancel == InitCancel /\ [][NextCancel]_vars

\* C28: cancel_booking for a submission that holds a booking frees exactly
\* the slot or slots booked by that submission (available again, booked by
\* nobody) and leaves every other slot as it was; the freed slot is as it
\* was before it was booked, so any submission can book it again while it
\* lies in the future; for a submission without a booking it answers not
\* found and changes no slot.
C28_CancelFreesExactlyOwnSlots ==
    [][\A r \in Reqs :
          cancel_booking_update(r) =>
              LET id == Unwrap(reqs[r].sub).id
                  held == {k \in DOMAIN calendar_slots :
                              calendar_slots[k].booked_by_submission = Some(id)}
              IN /\ DOMAIN calendar_slots' = DOMAIN calendar_slots
                 /\ \A k \in DOMAIN calendar_slots :
                        IF k \in held
                        THEN /\ calendar_slots'[k] =
                                    NewSlot(k, [slot_start |-> calendar_slots[k].slot_start,
                                                slot_end |-> calendar_slots[k].slot_end])
                             /\ calendar_slots[k].slot_start > now => BookableSlot(k)'
                        ELSE calendar_slots'[k] = calendar_slots[k]
                 /\ IF held = {}
                    THEN /\ reqs'[r].pc = "done"
                         /\ Unwrap(reqs'[r].result).status = "NOT_FOUND"
                         /\ UNCHANGED calendar_slots
                    ELSE reqs'[r].pc = "cancel_audit"]_vars

\* submission 1 booked slot 1 and cancelled, and submission 2 has booked it
C28_Witness ==
    /\ 1 \in DOMAIN calendar_slots
    /\ calendar_slots[1].booked_by_submission = Some(2)
    /\ BagIn(AuditEntry("slot_cancelled", "calendar_slot", 1, "applicant"), audit_log)
    /\ \E r \in Reqs : reqs[r].op = "book_slot" /\ reqs[r].pc = "done"
                        /\ Unwrap(reqs[r].result).status = "OK"

NotAvailableMsg == "Slot not available or has already been booked"

\* C29: book_slot changes a slot only if, when its UPDATE runs, the slot
\* exists, is available and starts strictly later than now, and then it
\* changes that slot alone; when the UPDATE runs for a slot that is booked,
\* has started or does not exist, the request fails with 'Slot not
\* available or has already been booked' and no slot is changed.
C29_BookOnlyAvailableFutureSlot ==
    [][\A r \in Reqs :
          /\ (\/ \E i \in {1, MaxSubs}, k \in {1, MaxSlots, MaxSlots + 1} :
                     book_slot(r, generate_submission_slug(i), k)
              \/ book_slot_check_existing(r)
              \/ book_slot_audit(r)) => UNCHANGED calendar_slots
          /\ book_slot_update(r) =>
                LET k == reqs[r].arg
                    ok == /\ k \in DOMAIN calendar_slots
                          /\ calendar_slots[k].is_available
                          /\ calendar_slots[k].slot_start > now
                IN /\ calendar_slots' /= calendar_slots =>
                        /\ ok
                        /\ calendar_slots' =
                              [calendar_slots EXCEPT ![k] =
                                 [@ EXCEPT !.is_available = FALSE,
                                           !.booked_by_submission =
                                               Some(Unwrap(reqs[r].sub).id)]]
                   /\ ~ok =>
                        /\ UNCHANGED calendar_slots
                        /\ reqs'[r].pc = "done"
                        /\ reqs'[r].result = Response("BAD_REQUEST", NotAvailableMsg)]_vars

\* a request for a slot another submission holds has been turned down
C29_Witness ==
    \E r \in Reqs :
        /\ reqs[r].op = "book_slot"
        /\ reqs[r].pc = "done"
        /\ reqs[r].result = Response("BAD_REQUEST", NotAvailableMsg)
        /\ reqs[r].slug = generate_submission_slug(MaxSubs)
        /\ reqs[r].arg \in DOMAIN calendar_slots
        /\ calendar_slots[reqs[r].arg].booked_by_submission = Some(1)
        /\ calendar_slots[reqs[r].arg].slot_start > now

\* ---------------------------------------------------------------------------
\* Sessions and time: logins, session checks and the periodic cleanup while
\* the clock advances
\* ---------------------------------------------------------------------------
MaxExpiryReqs == 1

SecondsPerHour == 3600

\* an uploader and an administrator have logged in; each of the two
\* sessions expires now or at MaxTime
InitExpiry ==
    /\ now = 0
    /\ submissions = [i \in 1..MaxSubs |->
          [SubmissionRow(i, IF i = 1 THEN "submitted" ELSE "draft",
                         IF i = 1 THEN Some(0 - ADMIN_SESSION_HOURS) ELSE None)
              EXCEPT !.created_at = 0 - ADMIN_SESSION_HOURS]]
    /\ next_sub_id = MaxSubs + 1
    /\ documents = << >>
    /\ next_doc_id = 1
    /\ files = {}
    /\ InitSlots(0)
    /\ \E left \in {0, MaxTime} :
          uploader_sessions =
              {UploaderSessionRow(1, <<"j","@","x">>, hash_token(generate_session_token(1)),
                                  left - UPLOADER_SESSION_HOURS, LoginIp)}
    /\ \E left \in {0, MaxTime} :
          admin_sessions =
              {AdminSessionRow(1, hash_token(generate_session_token(2)),
                               left - ADMIN_SESSION_HOURS, LoginIp)}
    /\ jar = {SetCookie(UPLOADER_SESSION_COOKIE, generate_session_token(1),
                        UPLOADER_SESSION_HOURS * 3600),
              SetCookie(SESSION_COOKIE, generate_session_token(2), ADMIN_SESSION_HOURS * 3600)}
    /\ next_token = 3
    /\ admin_users = (1 :> [AdminRow(1, TRUE) EXCEPT
                               !.last_login_at = Some(0 - ADMIN_SESSION_HOURS)])
    /\ rate_limit_attempts = EmptyBag
    /\ audit_log = SetToBag({AuditEntry("uploader_login", "submission", 1, "uploader"),
                             AuditEntry("admin_login", "admin_user", 1, "admin")})
    /\ fk_slot_on_delete = "no_action"
    /\ Serving
    /\ reqs = [r \in 1..MaxExpiryReqs |-> IdleReq]
    /\ sweep = SweepIdle

\* the Cookie headers of clients that present a token they were given
ExpiryAdminCookies == {<< <<SESSION_COOKIE, t>> >> : t \in IssuedAs(SESSION_COOKIE)}
ExpiryUploaderCookies ==
    {<< <<UPLOADER_SESSION_COOKIE, t>> >> : t \in IssuedAs(UPLOADER_SESSION_COOKIE)}

NextExpiry ==
    \/ \E r \in Reqs :
           admin_login(r, [x_forwarded_for |-> None, x_real_ip |-> None],
                       [username |-> "admin", password |-> "secret"])
    \/ \E r \in Reqs : admin_login_record(r)
    \/ \E r \in Reqs : admin_login_find(r)
    \/ \E r \in Reqs : admin_login_session(r)
    \/ \E r \in Reqs : admin_login_last_login(r)
    \/ \E r \in Reqs : admin_login_audit(r)
    \/ \E r \in Reqs :
           uploader_login(r, [x_forwarded_for |-> None, x_real_ip |-> None],
                          [slug |-> <<"r","r","-","1">>, email |-> <<"j","@","x">>])
    \/ \E r \in Reqs : uploader_login_record(r)
    \/ \E r \in Reqs : uploader_login_find(r)
    \/ \E r \in Reqs : uploader_login_session(r)
    \/ \E r \in Reqs : uploader_login_audit(r)
    \/ \E r \in Reqs : uploader_login_documents(r)
    \/ \E r \in Reqs, cookies \in ExpiryAdminCookies : require_admin(r, cookies)
    \/ \E r \in Reqs : require_admin_user(r)
    \/ \E r \in Reqs, cookies \in ExpiryAdminCookies : get_current_admin(r, cookies)
    \/ \E r \in Reqs : validate_admin_session(r)
    \/ \E r \in Reqs, cookies \in ExpiryUploaderCookies : get_current_uploader(r, cookies)
    \/ \E r \in Reqs : get_current_uploader_submission(r)
    \/ cleanup_rate_limit_entries
    \/ cleanup_expired_admin_sessions
    \/ Tick

SpecExpiry == InitExpiry /\ [][NextExpiry]_vars

\* a session row was issued TTL before it expires, and not in the future
IssuedInThePast ==
    /\ \A s \in admin_sessions : s.expires_at - ADMIN_SESSION_HOURS <= now
    /\ \A s \in uploader_sessions : s.expires_at - UPLOADER_SESSION_HOURS <= now

\* Max-Age, in seconds, is the lifetime of the session
CookieMaxAgeIsTtl ==
    \A c \in jar :
        /\ c[1] = SESSION_COOKIE => c[3] = ADMIN_SESSION_HOURS * SecondsPerHour
        /\ c[1] = UPLOADER_SESSION_COOKIE => c[3] = UPLOADER_SESSION_HOURS * SecondsPerHour

\* rows are inserted by the logins alone, and expire TTL after the token was
\* generated
RowsExpireTtlAfterIssue ==
    \A r \in Reqs :
        /\ admin_login_find(r) /\ reqs'[r].session /= None =>
               Unwrap(reqs'[r].session).at = now
        /\ uploader_login_find(r) /\ reqs'[r].session /= None =>
               Unwrap(reqs'[r].session).at = now
        /\ admin_login_session(r) =>
               \A s \in admin_sessions' \ admin_sessions :
                   /\ s.token_hash = Unwrap(reqs[r].session).token_hash
                   /\ s.expires_at = Unwrap(reqs[r].session).at + ADMIN_SESSION_HOURS
        /\ uploader_login_session(r) =>
               \A s \in uploader_sessions' \ uploader_sessions :
                   /\ s.token_hash = Unwrap(reqs[r].session).token_hash
                   /\ s.expires_at = Unwrap(reqs[r].session).at + UPLOADER_SESSION_HOURS
        /\ ~admin_login_session(r) /\ reqs'[r] /= reqs[r] => admin_sessions' \subseteq admin_sessions
        /\ ~uploader_login_session(r) /\ reqs'[r] /= reqs[r] =>
               uploader_sessions' \subseteq uploader_sessions

\* a check lets a token through only while a row with its hash exists whose
\* expiry lies strictly ahead
AcceptedOnlyBeforeExpiry ==
    \A r \in Reqs :
        /\ \A cookies \in ExpiryAdminCookies :
               (require_admin(r, cookies) \/ get_current_admin(r, cookies))
                   /\ reqs'[r].pc /= "done" =>
                       \E s \in admin_sessions :
                           /\ s.token_hash = hash_token(cookies[1][2])
                           /\ now < (s.expires_at - ADMIN_SESSION_HOURS) + ADMIN_SESSION_HOURS
        /\ \A cookies \in ExpiryUploaderCookies :
               get_current_uploader(r, cookies) /\ reqs'[r].pc /= "done" =>
                   \E s \in uploader_sessions :
                       /\ s.token_hash = hash_token(cookies[1][2])
                       /\ now < (s.expires_at - UPLOADER_SESSION_HOURS) + UPLOADER_SESSION_HOURS

\* C30: a session token is accepted only strictly before its expiry: the
\* row of a token generated at t expires at t + TTL, 8 hours for an
\* administrator and 4 hours for an uploader, and a check at t' accepts the
\* token only if such a row is there and t' < t + TTL, whether or not the
\* cleanup has removed expired rows; the Max-Age of the cookie set at login
\* is the same TTL in seconds.
C30_AcceptedOnlyBeforeExpiry ==
    /\ IssuedInThePast /\ CookieMaxAgeIsTtl
    /\ [][/\ IssuedInThePast' /\ CookieMaxAgeIsTtl'
          /\ RowsExpireTtlAfterIssue
          /\ AcceptedOnlyBeforeExpiry]_vars

\* an uploader's token has been accepted while its row is in the table and
\* expires later than now
C30_Witness ==
    \E r \in Reqs :
        /\ reqs[r].op = "get_current_uploader"
        /\ reqs[r].pc = "done"
        /\ Unwrap(reqs[r].result).status = "OK"
        /\ \E s \in uploader_sessions :
               /\ s.token_hash = hash_token(Unwrap(reqs[r].cookie)[1][2])
               /\ s.expires_at = MaxTime
               /\ now < s.expires_at

\* ---------------------------------------------------------------------------
\* Logout
\* ---------------------------------------------------------------------------
\* the token a logout request presented, once its DELETE has run
LoggedOut(r, op, name) ==
    /\ reqs[r].op = op
    /\ reqs[r].pc \in {op \o "_audit", "done"}
    /\ \E i \in DOMAIN Unwrap(reqs[r].cookie) : Unwrap(reqs[r].cookie)[i][1] = name

FirstNamed(cookies, name) ==
    cookies[CHOOSE i \in DOMAIN cookies :
               /\ cookies[i][1] = name
               /\ \A j \in DOMAIN cookies : cookies[j][1] = name => i <= j][2]

LoggedOutAdminTokens ==
    {FirstNamed(Unwrap(reqs[r].cookie), SESSION_COOKIE) :
        r \in {q \in Reqs : LoggedOut(q, "admin_logout", SESSION_COOKIE)}}

LoggedOutUploaderTokens ==
    {FirstNamed(Unwrap(reqs[r].cookie), UPLOADER_SESSION_COOKIE) :
        r \in {q \in Reqs : LoggedOut(q, "uploader_logout", UPLOADER_SESSION_COOKIE)}}

\* no row is left for a token that was logged out
LoggedOutTokensHaveNoRow ==
    /\ \A t \in LoggedOutAdminTokens :
           \A s \in admin_sessions : s.token_hash /= hash_token(t)
    /\ \A t \in LoggedOutUploaderTokens :
           \A s \in uploader_sessions : s.token_hash /= hash_token(t)

\* the DELETE of a logout removes the rows of its token and no other row;
\* the other steps of a logout remove none, and the logout answers OK
LogoutRemovesOwnSessionOnly ==
    \A r \in Reqs :
        /\ admin_logout_delete(r) =>
               LET t == FirstNamed(Unwrap(reqs[r].cookie), SESSION_COOKIE)
               IN /\ admin_sessions' =
                         {s \in admin_sessions : s.token_hash /= hash_token(t)}
                  /\ UNCHANGED uploader_sessions
        /\ uploader_logout_delete(r) =>
               LET t == FirstNamed(Unwrap(reqs[r].cookie), UPLOADER_SESSION_COOKIE)
               IN /\ uploader_sessions' =
                         {s \in uploader_sessions : s.token_hash /= hash_token(t)}
                  /\ UNCHANGED admin_sessions
        /\ (\/ \E cookies \in AdminCookieInputs : admin_logout(r, cookies)
            \/ \E cookies \in UploaderCookieInputs : uploader_logout(r, cookies)
            \/ admin_logout_audit(r)
            \/ uploader_logout_audit(r)) =>
               /\ UNCHANGED <<admin_sessions, uploader_sessions>>
               /\ reqs'[r].pc = "done" => Unwrap(reqs'[r].result).status = "OK"

\* a check that is given a logged-out token turns the request down
LoggedOutTokenRejected ==
    \A r \in Reqs :
        /\ \A t \in LoggedOutAdminTokens :
               LET cookies == << <<SESSION_COOKIE, t>> >>
               IN require_admin(r, cookies) \/ get_current_admin(r, cookies) =>
                      /\ reqs'[r].pc = "done"
                      /\ Unwrap(reqs'[r].result).status = "UNAUTHORIZED"
        /\ \A t \in LoggedOutUploaderTokens :
               LET cookies == << <<UPLOADER_SESSION_COOKIE, t>> >>
               IN get_current_uploader(r, cookies) =>
                      /\ reqs'[r].pc = "done"
                      /\ Unwrap(reqs'[r].result).status = "UNAUTHORIZED"

\* C31: after admin_logout (uploader_logout) with token T no check of that
\* namespace accepts T again, while every other session, of the same
\* administrator (the same submission) included, keeps its row; a logout
\* without a token or with an unknown token answers OK and removes no
\* session.
C31_LogoutEndsOnlyItsSession ==
    /\ LoggedOutTokensHaveNoRow
    /\ [][/\ LoggedOutTokensHaveNoRow'
          /\ LogoutRemovesOwnSessionOnly
          /\ LoggedOutTokenRejected]_vars

\* an administrator with two live sessions has logged out of one of them
C31_Witness ==
    /\ \E t \in LoggedOutAdminTokens :
           /\ t \in IssuedAs(SESSION_COOKIE)
           /\ BagIn(AuditEntry("admin_logout", "admin_user", 1, "admin"), audit_log)
    /\ \E s \in admin_sessions : s.admin_user_id = 1 /\ s.expires_at > now

\* ---------------------------------------------------------------------------
\* The acceptance gate of upload_document
\* ---------------------------------------------------------------------------
\* office and document formats and plain text
MimeAllowList ==
    {"application/pdf", "application/msword",
     "application/vnd.openxmlformats-officedocument.wordprocessingml.document",
     "application/vnd.ms-excel",
     "application/vnd.openxmlformats-officedocument.spreadsheetml.sheet",
     "application/vnd.ms-powerpoint",
     "application/vnd.openxmlformats-officedocument.presentationml.presentation",
     "application/vnd.oasis.opendocument.text", "application/rtf",
     "text/plain", "text/markdown", "text/csv"}

PassesAllThree(name, mime, size) ==
    /\ mime \in MimeAllowList
    /\ size <= max_upload_size
    /\ ~HasDangerousExtension(name)

\* what is stored, or on its way to be stored, passed the three checks
StoredPassedAllThree ==
    /\ \A id \in DOMAIN documents :
           documents[id].filename /= None =>
               PassesAllThree(Unwrap(documents[id].original_filename),
                              Unwrap(documents[id].mime_type),
                              Unwrap(documents[id].file_size))
    /\ \A r \in Reqs :
           reqs[r].op = "upload_document" /\ reqs[r].doc /= None =>
               PassesAllThree(Unwrap(reqs[r].doc).original_filename,
                              Unwrap(reqs[r].doc).mime_type,
                              Unwrap(reqs[r].doc).file_size)
    /\ \A f \in files :
           \/ \E id \in DOMAIN documents : documents[id].file_path = Some(f)
           \/ \E r \in Reqs : /\ reqs[r].pc = "upload_insert"
                                /\ Unwrap(reqs[r].doc).file_path = f

\* the part with a failing check is answered 400 with nothing created, the
\* part that passes all three goes on to be stored
GateDecides ==
    \A r \in Reqs, field \in GateFields :
        upload_document_read(r, field) =>
            LET file == Unwrap(field)
                mime == IF file.content_type = None THEN "application/octet-stream"
                        ELSE Unwrap(file.content_type)
            IN IF PassesAllThree(Unwrap(file.file_name), mime, file.size)
               THEN reqs'[r].pc = "upload_store"
               ELSE /\ reqs'[r].pc = "done"
                    /\ Unwrap(reqs'[r].result).status = "BAD_REQUEST"
                    /\ Unwrap(reqs'[r].result).msg \in {"FileTooLarge", "InvalidFileType"}
                    /\ UNCHANGED <<documents, files>>

\* C32: upload_document stores a file and a document row only if the
\* declared MIME type is in the allow-list, the size does not exceed the
\* configured maximum and the filename passes the dangerous-extension check;
\* if one of the three fails the request is answered with a validation error
\* and neither a file nor a row is created.
C32_ThreeChecksGateUpload ==
    /\ StoredPassedAllThree
    /\ [][StoredPassedAllThree' /\ GateDecides]_vars

\* a file of exactly the largest size allowed has been stored
C32_Witness ==
    \E id \in DOMAIN documents :
        /\ documents[id].file_size = Some(max_upload_size)
        /\ documents[id].file_path \in {Some(f) : f \in files}

\* ---------------------------------------------------------------------------
\* Uploads while the submission is being deleted
\* ---------------------------------------------------------------------------
MaxOrphanReqs == 2

\* every submission is a draft; the applicant of submission 1 has uploaded
\* one file
InitOrphan ==
    /\ now = 0
    /\ InitSubmissions(0)
    /\ LET safe_filename == sanitize_filename(Unwrap(PdfFile.file_name))
           storage_filename == StorageFilename(1, safe_filename)
           file_path == FilePath(generate_submission_slug(1), storage_filename)
       IN /\ documents = (1 :>
                [id |-> 1, submission_id |-> 1, category |-> "circular",
                 classification |-> "public",
                 external_url |-> None, external_title |-> None,
                 filename |-> Some(storage_filename),
                 original_filename |-> PdfFile.file_name,
                 file_path |-> Some(file_path),
                 file_size |-> Some(PdfFile.size),
                 mime_type |-> PdfFile.content_type,
                 description |-> None, created_at |-> 0])
          /\ files = {file_path}
    /\ next_doc_id = 2
    /\ InitSlots(0)
    /\ uploader_sessions = {}
    /\ admin_sessions = {}
    /\ admin_users = (1 :> AdminRow(1, TRUE))
    /\ rate_limit_attempts = EmptyBag
    /\ audit_log = SetToBag({AuditEntry("document_uploaded", "document", 1, "applicant")})
    /\ next_token = 1
    /\ jar = {}
    /\ fk_slot_on_delete = "no_action"
    /\ Serving
    /\ reqs = [r \in 1..MaxOrphanReqs |-> IdleReq]
    /\ sweep = SweepIdle

NextOrphan ==
    \/ \E r \in Reqs, i \in {1, MaxSubs} :
           upload_document(r, generate_submission_slug(i),
                           [category |-> "circular", classification |-> "public",
                            description |-> None])
    \/ \E r \in Reqs : upload_document_read(r, Some(PdfFile))
    \/ \E r \in Reqs : upload_document_store(r)
    \/ \E r \in Reqs : upload_document_insert(r)
    \/ \E r \in Reqs : upload_document_audit(r)
    \/ \E r \in Reqs, id \in {1, MaxSubs} : delete_submission(r, id)
    \/ \E r \in Reqs : delete_submission_files(r)
    \/ \E r \in Reqs : delete_submission_row(r)
    \/ \E r \in Reqs : delete_submission_audit(r)

SpecOrphan == InitOrphan /\ [][NextOrphan]_vars

StoreFailedMsg == "Failed to store document. Please try again."

MaxRawLen == 3

\* a dot, an underscore, a letter, the two directory separators and a
\* character that is replaced
RawAlphabet == {".", "_", "a", "/", "\\", " "}

RawFilenames == StringsUpTo(RawAlphabet, MaxRawLen)

\* an upload has arrived; arg holds the filename of its part
InitSanitize ==
    /\ InitTables
    /\ \E filename \in RawFilenames :
           reqs = [r \in 1..1 |-> [IdleReq EXCEPT !.arg = Some(filename)]]

\* "Create storage path": let safe_filename = sanitize_filename(&original_filename)
sanitize_filename_call(r) ==
    /\ reqs[r].pc = "idle"
    /\ reqs[r].arg /= None
    /\ reqs' = [reqs EXCEPT ![r] =
                   [@ EXCEPT !.op = "sanitize_filename", !.pc = "done",
                             !.result = Some(sanitize_filename(Unwrap(reqs[r].arg)))]]
    /\ UNCHANGED <<now, submissions, next_sub_id, documents, next_doc_id, files,
                   calendar_slots, next_slot_id, uploader_sessions,
                   admin_sessions, admin_users, rate_limit_attempts, audit_log,
                   next_token, jar, fk_slot_on_delete, startup, schema, sweep>>

NextSanitize == \E r \in Reqs : sanitize_filename_call(r)

SpecSanitize == InitSanitize /\ [][NextSanitize]_vars

Sanitized(r) == Unwrap(reqs[r].result)

\* C34: for every filename, sanitize_filename returns a non-empty string of
\* ASCII letters, digits, hyphens, underscores and dots, without a directory
\* separator, that starts with neither a dot nor an underscore.
C34_SanitizedIsSafe ==
    \A r \in Reqs :
        reqs[r].op = "sanitize_filename" /\ reqs[r].pc = "done" =>
            /\ Len(Sanitized(r)) > 0
            /\ \A i \in 1..Len(Sanitized(r)) :
                   Sanitized(r)[i] \in AsciiLower \cup AsciiUpper \cup AsciiDigit
                                          \cup {"-", "_", "."}
            /\ \A i \in 1..Len(Sanitized(r)) : Sanitized(r)[i] \notin {"/", "\\"}
            /\ Sanitized(r)[1] \notin {".", "_"}

\* the same without the last condition
C34_SanitizedCharactersOnly ==
    \A r \in Reqs :
        reqs[r].op = "sanitize_filename" /\ reqs[r].pc = "done" =>
            /\ Len(Sanitized(r)) > 0
            /\ \A i \in 1..Len(Sanitized(r)) :
                   Sanitized(r)[i] \in AsciiLower \cup AsciiUpper \cup AsciiDigit
                                          \cup {"-", "_", "."}
            /\ Sanitized(r)[1] /= "_"

\* ---------------------------------------------------------------------------
\* The admin routes behind require_admin
\* ---------------------------------------------------------------------------
\* next.run(request).await: the request the middleware let through is handed
\* to the handler of its route, with the Cookie header it came with
next_run(r) ==
    /\ Done(r, "require_admin")
    /\ Unwrap(reqs[r].result).status = "OK"
    /\ reqs' = [reqs EXCEPT ![r] =
                   [IdleReq EXCEPT !.op = "next.run", !.cookie = reqs[r].cookie]]
    /\ UNCHANGED <<now, submissions, next_sub_id, documents, next_doc_id, files,
                   calendar_slots, next_slot_id, uploader_sessions,
                   admin_sessions, admin_users, rate_limit_attempts, audit_log,
                   next_token, jar, fk_slot_on_delete, startup, schema, sweep>>

\* the handlers that only read: list_submissions, get_submission_admin,
\* export_submission_json, export_submission_files, get_dashboard_stats,
\* list_slots_admin
AdminReadOps == {"list_submissions", "get_submission_admin",
                 "export_submission_json", "export_submission_files",
                 "get_dashboard_stats", "list_slots_admin"}

admin_read(r, op) ==
    /\ CanStart(r)
    /\ reqs' = [reqs EXCEPT ![r] = Respond(Begin(r, op, None, None, None), "OK", "success")]
    /\ UNCHANGED <<now, submissions, next_sub_id, documents, next_doc_id, files,
                   calendar_slots, next_slot_id, uploader_sessions,
                   admin_sessions, admin_users, rate_limit_attempts, audit_log,
                   next_token, jar, fk_slot_on_delete, startup, schema, sweep>>

\* DELETE /api/admin/submissions/:id: the path is routed for GET only, no
\* route names delete_submission
DeleteSubmissionRoute == "DELETE /submissions/:id"

method_not_allowed(r) ==
    /\ CanStart(r)
    /\ reqs' = [reqs EXCEPT ![r] =
          Respond(Begin(r, DeleteSubmissionRoute, None, None, None),
                  "METHOD_NOT_ALLOWED", "")]
    /\ UNCHANGED <<now, submissions, next_sub_id, documents, next_doc_id, files,
                   calendar_slots, next_slot_id, uploader_sessions,
                   admin_sessions, admin_users, rate_limit_attempts, audit_log,
                   next_token, jar, fk_slot_on_delete, startup, schema, sweep>>

\* a request that has just arrived / that the middleware has let through
Arrived(r) == reqs[r].op = "none"
Layered(r) == reqs[r].op = "next.run"

\* admin_routes: every route under .layer(require_admin)
NextAdmin ==
    \/ \E r \in Reqs, cookies \in GateCookies : Arrived(r) /\ require_admin(r, cookies)
    \/ \E r \in Reqs : require_admin_user(r)
    \/ \E r \in Reqs : next_run(r)
    \/ \E r \in Reqs, op \in AdminReadOps : Layered(r) /\ admin_read(r, op)
    \/ \E r \in Reqs, id \in {1, 0}, input \in StatusInputs :
           Layered(r) /\ update_submission_status(r, id, input)
    \/ \E r \in Reqs : update_submission_status_audit(r)
    \/ \E r \in Reqs, id \in {1, 0}, input \in ForwardInputs :
           Layered(r) /\ forward_submission(r, id, input)
    \/ \E r \in Reqs : forward_submission_audit(r)
    \/ \E r \in Reqs : Layered(r) /\ method_not_allowed(r)
    \/ \E r \in Reqs, input \in SlotInputs : Layered(r) /\ create_slots(r, <<input>>)
    \/ \E r \in Reqs : create_slots_loop(r)
    \/ \E r \in Reqs, k \in 1..MaxSlots : Layered(r) /\ delete_slot(r, k)
    \/ \E r \in Reqs : delete_slot_delete(r)

SpecAdmin == InitGate /\ [][NextAdmin]_vars

AdminRouteOps ==
    AdminReadOps \cup {"update_submission_status", "forward_submission",
                       "create_slots", "delete_slot", DeleteSubmissionRoute}

\* the Cookie header holds, under the admin cookie name, the token of a
\* session row that has not expired and whose user is active
CarriesAdminSession(cookie) ==
    /\ cookie /= None
    /\ \E i \in DOMAIN Unwrap(cookie) : Unwrap(cookie)[i][1] = SESSION_COOKIE
    /\ \E s \in admin_sessions :
           /\ s.token_hash = hash_token(FirstNamed(Unwrap(cookie), SESSION_COOKIE))
           /\ s.expires_at > now
           /\ s.admin_user_id \in DOMAIN admin_users
           /\ admin_users[s.admin_user_id].is_active

DataTables ==
    <<submissions, next_sub_id, documents, next_doc_id, files, calendar_slots,
      next_slot_id, uploader_sessions, admin_sessions, admin_users, audit_log>>

\* a request reaches a handler of the admin routes only with such a session
HandlerOnlyWithSession ==
    \A r \in Reqs :
        reqs'[r].op \in AdminRouteOps /\ reqs[r].op \notin AdminRouteOps =>
            CarriesAdminSession(reqs[r].cookie)

\* only the handlers change the tables
OnlyHandlersChange ==
    DataTables' /= DataTables =>
        \E r \in Reqs : reqs[r] /= reqs'[r] /\ reqs'[r].op \in AdminRouteOps

\* without such a session the middleware answers 401, changes nothing, and
\* the request ends there
RejectedWithoutSession ==
    \A r \in Reqs, cookies \in GateCookies :
        require_admin(r, cookies) /\ ~CarriesAdminSession(Some(cookies)) =>
            /\ DataTables' = DataTables
            /\ \/ /\ Done(r, "require_admin")'
                  /\ Unwrap(reqs'[r].result).status = "UNAUTHORIZED"
               \/ /\ reqs'[r].pc = "require_admin_user"
                  /\ ~ (Unwrap(reqs'[r].session).admin_user_id \in DOMAIN admin_users
                         /\ admin_users[Unwrap(reqs'[r].session).admin_user_id].is_active)

RejectedStays ==
    \A r \in Reqs :
        /\ reqs[r].pc = "require_admin_user" /\ reqs'[r] /= reqs[r]
           /\ ~CarriesAdminSession(reqs[r].cookie)
              => /\ Done(r, "require_admin")'
                 /\ Unwrap(reqs'[r].result).status = "UNAUTHORIZED"
                 /\ DataTables' = DataTables
        /\ Done(r, "require_admin") /\ Unwrap(reqs[r].result).status /= "OK"
              => reqs'[r] = reqs[r]

\* C35: an operation of the admin routes takes effect only for a request
\* carrying an unexpired admin session of an active admin user; a request
\* without one is answered 401 and no table changes.
C35_AdminRoutesNeedSession ==
    [][/\ HandlerOnlyWithSession
       /\ OnlyHandlersChange
       /\ RejectedWithoutSession
       /\ RejectedStays]_vars

\* an admitted request has changed a status while another, with the cookie of
\* an uploader, was turned down
C35_Witness ==
    \E r1, r2 \in Reqs :
        /\ Done(r1, "update_submission_status")
        /\ Unwrap(reqs[r1].result).status = "OK"
        /\ submissions[1].status = "rejected"
        /\ Done(r2, "require_admin")
        /\ Unwrap(reqs[r2].result).status = "UNAUTHORIZED"
        /\ reqs[r2].cookie /= None /\ Unwrap(reqs[r2].cookie) /= << >>

\* ---------------------------------------------------------------------------
\* The periodic cleanup and the checks that read the swept tables
\* ---------------------------------------------------------------------------
\* what check_rate_limit_with_max counts at time t in a table
AttemptsCountedAt(attempts, ip, endpoint, t) ==
    LET recent == {a \in BagToSet(attempts) :
                      /\ a.ip_address = ip
                      /\ a.endpoint = endpoint
                      /\ a.attempted_at > t - 1}
    IN BagCardinality([a \in recent |-> attempts[a]])

\* what "Find valid session" selects at time t in a table
SessionsValidAt(sessions, token_hash, t) ==
    {s \in sessions : s.token_hash = token_hash /\ s.expires_at > t}

SweptIps == {a.ip_address : a \in BagToSet(rate_limit_attempts)}
SweptEndpoints == {a.endpoint : a \in BagToSet(rate_limit_attempts)}
SweptHashes == {s.token_hash : s \in admin_sessions}

\* a step of the cleanup task deletes only attempts outside the window and
\* sessions that have expired
SweepDeletesOnlyStale ==
    sweep' /= sweep =>
        /\ \A a \in BagToSet(rate_limit_attempts) :
               (a \notin BagToSet(rate_limit_attempts')
                   \/ rate_limit_attempts'[a] /= rate_limit_attempts[a])
                  => a.attempted_at < now - 1
        /\ BagToSet(rate_limit_attempts') \subseteq BagToSet(rate_limit_attempts)
        /\ \A s \in admin_sessions \ admin_sessions' : s.expires_at < now
        /\ admin_sessions' \subseteq admin_sessions
        /\ uploader_sessions' = uploader_sessions

\* now and at every later time, the counts and the lookups give the same
\* result on the swept table as on the table before the sweep
SweepKeepsResults ==
    sweep' /= sweep =>
        \A t \in now..(MaxTime + 1) :
            /\ \A ip \in SweptIps, endpoint \in SweptEndpoints :
                   AttemptsCountedAt(rate_limit_attempts', ip, endpoint, t)
                      = AttemptsCountedAt(rate_limit_attempts, ip, endpoint, t)
            /\ \A h \in SweptHashes :
                   SessionsValidAt(admin_sessions', h, t)
                      = SessionsValidAt(admin_sessions, h, t)

\* C36: the rate-limit sweep deletes only attempts already outside the
\* 1-hour window and the session sweep only sessions already expired, so the
\* rate-limit check and the session lookup answer the same with or without a
\* sweep.
C36_SweepsChangeNoAnswer ==
    [][SweepDeletesOnlyStale /\ SweepKeepsResults]_vars

\* both sweeps have deleted rows while an attempt inside the window and a
\* live session are in the tables
C36_Witness ==
    /\ sweep.pc = "idle"
    /\ \A a \in BagToSet(rate_limit_attempts) : a.attempted_at > now - 1
    /\ rate_limit_attempts /= EmptyBag
    /\ \A s \in admin_sessions : s.expires_at > now
    /\ admin_sessions /= {}

\* ---------------------------------------------------------------------------
\* The rate limits under concurrent requests
\* ---------------------------------------------------------------------------
\* a request past the check of its handler records its attempt next, so the
\* rows of the last hour are the requests that passed the check in that hour
RateLimitOf(endpoint) ==
    IF endpoint = "create_submission" THEN MAX_SUBMISSION_ATTEMPTS
    ELSE MAX_LOGIN_ATTEMPTS

\* C37: in any trailing hour at most max attempts of an (ip, endpoint) pass
\* the rate-limit check, also when requests of one address run concurrently.
C37_AtMostMaxPass ==
    \A a \in BagToSet(rate_limit_attempts) :
        AttemptsInWindow(a.ip_address, a.endpoint) <= RateLimitOf(a.endpoint)

\* ---------------------------------------------------------------------------
\* Documents while the submission is being submitted
\* ---------------------------------------------------------------------------
MaxRaceReqs == 2

LawLink == <<"h","t","t","p","s",":","/","/","w">>

LinkDocument(id, submission_id) ==
    [id |-> id, submission_id |-> submission_id, category |-> "formal_law",
     classification |-> "public", external_url |-> Some(LawLink),
     external_title |-> None, filename |-> None, original_filename |-> None,
     file_path |-> None, file_size |-> None, mime_type |-> None,
     description |-> None, created_at |-> LoginTime]

\* submission 1 has been submitted, the last one is a draft; each got a
\* link while it was a draft, and the uploader of each is logged in
InitDocRace ==
    /\ now = 0
    /\ submissions = [i \in 1..MaxSubs |->
          [SubmissionRow(i, IF i = 1 THEN "submitted" ELSE "draft",
                         IF i = 1 THEN Some(LoginTime) ELSE None)
              EXCEPT !.created_at = LoginTime]]
    /\ next_sub_id = MaxSubs + 1
    /\ documents = (1 :> LinkDocument(1, 1)) @@ (2 :> LinkDocument(2, MaxSubs))
    /\ next_doc_id = 3
    /\ files = {}
    /\ InitSlots(0)
    /\ uploader_sessions =
           {UploaderSessionRow(1, <<"j","@","x">>, hash_token(generate_session_token(1)),
                               LoginTime, LoginIp),
            UploaderSessionRow(MaxSubs, <<"j","@","x">>,
                               hash_token(generate_session_token(2)), LoginTime, LoginIp)}
    /\ admin_sessions = {}
    /\ jar = {SetCookie(UPLOADER_SESSION_COOKIE, generate_session_token(1), UPLOADER_SESSION_HOURS * 3600),
              SetCookie(UPLOADER_SESSION_COOKIE, generate_session_token(2), UPLOADER_SESSION_HOURS * 3600)}
    /\ next_token = 3
    /\ admin_users = (1 :> AdminRow(1, TRUE))
    /\ rate_limit_attempts = EmptyBag
    /\ audit_log = SetToBag({AuditEntry("document_uploaded", "document", 1, "applicant"),
                             AuditEntry("document_uploaded", "document", 2, "applicant"),
                             AuditEntry("submission_submitted", "submission", 1, "applicant"),
                             AuditEntry("uploader_login", "submission", 1, "uploader"),
                             AuditEntry("uploader_login", "submission", MaxSubs, "uploader")})
    /\ fk_slot_on_delete = "no_action"
    /\ Serving
    /\ reqs = [r \in 1..MaxRaceReqs |-> IdleReq]
    /\ sweep = SweepIdle

RaceSlugs == {generate_submission_slug(i) : i \in {1, MaxSubs}}

\* no cookie, or the cookie of either uploader
RaceCookies ==
    {<< >>} \cup {<< <<UPLOADER_SESSION_COOKIE, generate_session_token(n)>> >> : n \in {1, 2}}

NextDocRace ==
    \/ \E r \in Reqs, slug \in RaceSlugs : upload_document(r, slug,
               [category |-> "circular", classification |-> "public", description |-> None])
    \/ \E r \in Reqs : upload_document_read(r, Some(PdfFile))
    \/ \E r \in Reqs, slug \in RaceSlugs : add_formal_law(r, slug,
               [external_url |-> LawLink, external_title |-> None, description |-> None])
    \/ \E r \in Reqs, slug \in RaceSlugs, doc_id \in DOMAIN documents :
           delete_document(r, slug, doc_id)
    \/ \E r \in Reqs, cookies \in RaceCookies : validate_uploader_session(r, cookies)
    \/ DocumentSteps
    \/ \E r \in Reqs, slug \in RaceSlugs : submit_submission(r, slug)
    \/ \E r \in Reqs : submit_submission_audit(r)

SpecDocRace == InitDocRace /\ [][NextDocRace]_vars

\* the step of request r that inserts or deletes a document row
WritesDocument(r) ==
    /\ reqs[r].pc \in {"upload_insert", "law_insert", "delete_row"}
    /\ reqs'[r] /= reqs[r]
    /\ documents' /= documents

\* C38: a request without a valid uploader session never inserts or deletes
\* a document of a submission that is not draft at the moment of the write,
\* however the document handlers interleave with submit_submission.
C38_NoSessionWritesOnlyDrafts ==
    [][\A r \in Reqs :
          WritesDocument(r) /\ reqs[r].session = None =>
              submissions[Unwrap(reqs[r].sub).id].status = "draft"]_vars

\* ---------------------------------------------------------------------------
\* delete_document and the documents of other submissions
\* ---------------------------------------------------------------------------
\* the id of the submission a slug names
SubmissionOfSlug(slug) ==
    CHOOSE i \in DOMAIN submissions : submissions[i].slug = slug

DocumentNotFound(req) ==
    req.pc = "done" /\ req.result = Response("NOT_FOUND", "Document not found")

\* the lookup of a document of another submission ends the request
ForeignDocumentNotFound ==
    \A r \in Reqs :
        (/\ reqs[r].op = "delete_document"
         /\ reqs[r].pc = "delete_select"
         /\ reqs'[r] /= reqs[r]
         /\ reqs[r].arg \in DOMAIN documents
         /\ documents[reqs[r].arg].submission_id /= SubmissionOfSlug(reqs[r].slug))
            => /\ DocumentNotFound(reqs'[r])
               /\ documents' = documents
               /\ files' = files

\* a step of delete_document removes no row of another submission, and no
\* file but the one of the row it selected
DeletesOnlyOwnDocuments ==
    \A r \in Reqs :
        reqs[r].op = "delete_document" /\ reqs'[r] /= reqs[r] =>
            /\ \A d \in DOMAIN documents \ DOMAIN documents' :
                   /\ d = reqs[r].arg
                   /\ documents[d].submission_id = SubmissionOfSlug(reqs[r].slug)
            /\ \A d \in DOMAIN documents \cap DOMAIN documents' :
                   documents'[d] = documents[d]
            /\ \A f \in files \ files' :
                   /\ reqs[r].doc /= None
                   /\ Unwrap(reqs[r].doc).id = reqs[r].arg
                   /\ Unwrap(reqs[r].doc).file_path = Some(f)
                   /\ Unwrap(reqs[r].doc).submission_id = SubmissionOfSlug(reqs[r].slug)

\* C40: delete_document through the slug of submission A removes a document
\* only if it belongs to A; the id of a document of another submission B is
\* answered "Document not found" and B's documents stay as they are, whatever
\* the status of A and of B.
C40_DeleteOnlyOwnDocument ==
    [][ForeignDocumentNotFound /\ DeletesOnlyOwnDocuments]_vars

\* the uploader of the submitted submission 1 has asked, through its slug,
\* for the deletion of a document of the draft: every document is still there
C40_Witness ==
    /\ reqs[1].op = "delete_document"
    /\ reqs[1].slug = generate_submission_slug(1)
    /\ reqs[1].cookie = Some(<< <<UPLOADER_SESSION_COOKIE, generate_session_token(1)>> >>)
    /\ DocumentNotFound(reqs[1])
    /\ \A r \in Reqs \ {1} : reqs[r].pc = "idle"
    /\ DOMAIN documents = {1, 2}
    /\ submissions[1].status = "submitted"

\* ---------------------------------------------------------------------------
\* Status and submitted_at
\* ---------------------------------------------------------------------------
\* C39: in every reachable state a draft has no submitted_at and a submission
\* in any other status has one, after any sequence of submit,
\* update_submission_status and forward.
C39_SubmittedAtMatchesStatus ==
    \A i \in DOMAIN submissions :
        submissions[i].status = "draft" <=> submissions[i].submitted_at = None

====
